---- MODULE Spec2Model ----
(***************************************************************************)
(* Verification model of the n8n RAG retrieval core.                       *)
(*                                                                         *)
(*   Spec       FeedbackLoop (5_feedback_loop_system.py) over one SQLite   *)
(*              database file, statement by statement, with two threads    *)
(*              and two FeedbackLoop instances.                            *)
(*   SpecQuery  N8nQueryProcessor.analyze_query (3_retrieval_pipeline.py)  *)
(*              on queries typed phrase by phrase.                         *)
(*   SpecComplexity  N8nQueryProcessor._assess_complexity on any list of   *)
(*              required nodes and any conditions.                         *)
(*   SpecStage  AdvancedN8nRetriever._multi_stage_retrieval over any       *)
(*              answers of the vector store.                               *)
(*   SpecRetrieve  retrieve_for_generation, retrieve_context and           *)
(*              retrieve_with_learning over stores with missing or         *)
(*              failing collections.                                       *)
(*   SpecRank   OllamaWorkflowGenerator._rank_results_by_service_relevance *)
(*              (4_ollama_integration.py) on any hits.                     *)
(*   SpecSplit  IntelligentChunker.split_text (chunking_utils.py).         *)
(*   SpecIngest  repeated ingestion of templates (extractor and indexer)   *)
(*              and of uploaded documents (rag_service.py).                *)
(*   SpecUpload  the upload and delete endpoints (backend/app.py) over     *)
(*              RAGService.process_document and delete_document.           *)
(*   SpecSocket  websocket_endpoint (backend/app.py) over                  *)
(*              ConnectionManager (websocket_manager.py) and               *)
(*              RAGService.generate_workflow_stream, one coroutine per     *)
(*              socket, interleaved at their awaits.                       *)
(*   SpecBuild  the template-based fallback generator of rag_service.py,   *)
(*              _generate_workflow_for_query and _create_custom_workflow.  *)
(***************************************************************************)
EXTENDS Integers, Sequences, FiniteSets, TLC

VARIABLES
    \* ---- FeedbackLoop: the database file ----
    generation_history,     \* committed rows of generation_history
    node_effectiveness,     \* committed rows of node_effectiveness, by node_type
    pattern_success,        \* committed rows of pattern_success, by pattern_id
    writeLock,              \* holder of SQLite's write (RESERVED) lock
    \* ---- FeedbackLoop: the instances ----
    node_success_rates,     \* per instance: cache of get_node_weights
    pattern_effectiveness,  \* per instance: cache of get_pattern_weights
    \* ---- FeedbackLoop: the threads ----
    pc,                     \* per thread: position in the running method
    call,                   \* per thread: arguments of the running method
    idx,                    \* per thread: position of the for loop
    fetched,                \* per thread: result of the last SELECT
    pendingUpd,             \* per thread: uncommitted rows of the update connection
    ret,                    \* per thread: outcome of the last finished method
    \* ---- FeedbackLoop: bookkeeping of what was asked (not program state) ----
    nCalls,                 \* methods started so far
    recorded,               \* per block / pattern: finished record calls naming it
    finishedRecords,        \* finished record_generation calls
    returnedFor,            \* blocks / patterns named by record calls that returned
    overlapped,             \* blocks / patterns named by two record calls in flight together
    \* ---- N8nQueryProcessor.analyze_query ----
    query,                  \* the user's query string
    nPhrases,               \* phrases typed into it
    analysis,               \* the QueryAnalysis returned for it
    \* ---- N8nQueryProcessor._assess_complexity ----
    cxNodes,                \* argument required_nodes
    cxConditions,           \* argument entities["conditions"]
    cxResult,               \* the rating returned for them
    \* ---- AdvancedN8nRetriever ----
    collections,            \* self.collections: names of the collections loaded
    answers,                \* per request: the hits the store ranks for it
    rtCall,                 \* the last call and its arguments
    results,                \* what _multi_stage_retrieval returned
    context,                \* what the call returned to its caller
    \* ---- OllamaWorkflowGenerator._rank_results_by_service_relevance ----
    ranked,                 \* the last ranking: its arguments and its result
    \* ---- IntelligentChunker, extractor, RAGService, N8nVectorIndexer ----
    chunked,                \* the last split_text call and its result
    index,                  \* per collection of the store: the ids of its entries
    document_metadata,      \* RAGService.document_metadata, by file_id
    ingestions,             \* the ingestions so far: input, chunk ids, ids added
    \* ---- backend/app.py: the document endpoints ----
    responses,              \* the responses of the upload and delete requests so far
    \* ---- backend/app.py websocket_endpoint, ConnectionManager ----
    active_connections,     \* ConnectionManager.active_connections, by client id
    connection_metadata,    \* ConnectionManager.connection_metadata: the client ids it has
    handlers,               \* per socket: its websocket_endpoint coroutine
    open,                   \* per socket: the peer has not closed it
    streams,                \* per socket: the events its last generate_workflow_stream yielded
    delivered,              \* per socket: the type of the last message written to it
    connect_order,          \* the sockets in the order of their manager.connect
    \* ---- the template-based generator of rag_service.py ----
    built                   \* the last _generate_workflow_for_query call and its workflow

fbVars == <<generation_history, node_effectiveness, pattern_success, writeLock,
            node_success_rates, pattern_effectiveness, pc, call, idx, fetched,
            pendingUpd, ret, nCalls, recorded, finishedRecords, returnedFor,
            overlapped>>

qVars == <<query, nPhrases, analysis>>

cxVars == <<cxNodes, cxConditions, cxResult>>

rtVars == <<collections, answers, rtCall, results, context>>

rkVars == <<ranked>>

ckVars == <<chunked, index, document_metadata, ingestions>>

apiVars == <<responses>>

wsVars == <<active_connections, connection_metadata, handlers, open, streams,
            delivered, connect_order>>

genVars == <<built>>

vars == <<fbVars, qVars, cxVars, rtVars, rkVars, ckVars, apiVars, wsVars, genVars>>

\* what the actions of one component leave alone
notFb == <<qVars, cxVars, rtVars, rkVars, ckVars, apiVars, wsVars, genVars>>
notQ == <<fbVars, cxVars, rtVars, rkVars, ckVars, apiVars, wsVars, genVars>>
notCx == <<fbVars, qVars, rtVars, rkVars, ckVars, apiVars, wsVars, genVars>>
notRt == <<fbVars, qVars, cxVars, rkVars, ckVars, apiVars, wsVars, genVars>>
notRk == <<fbVars, qVars, cxVars, rtVars, ckVars, apiVars, wsVars, genVars>>
notCk == <<fbVars, qVars, cxVars, rtVars, rkVars, apiVars, wsVars, genVars>>
notFbRt == <<qVars, cxVars, rkVars, ckVars, apiVars, wsVars, genVars>>
notCkApi == <<fbVars, qVars, cxVars, rtVars, rkVars, wsVars, genVars>>
notWs == <<fbVars, qVars, cxVars, rtVars, rkVars, ckVars, apiVars, genVars>>
notGen == <<fbVars, qVars, cxVars, rtVars, rkVars, ckVars, apiVars, wsVars>>

(***************************************************************************)
(* Bounds and input sets                                                   *)
(***************************************************************************)
MaxCalls == 2

Threads == {"t1", "t2"}
Instances == {"a", "b"}
NodeTypes == {"X", "Y"}
PatternIds == {"P"}
NodeLists == {<<>>, <<"X">>, <<"X", "Y">>}
PatternLists == {<<>>, <<"P">>}

EmptyMap == [k \in {} |-> 0]
\* cursor.fetchone(): <<>> for None, <<row>> for a row
NoRow == <<>>
Free == <<"none", "free">>
Orphan == <<"none", "orphan">>
RgConn(t) == <<t, "record_generation">>
UpdConn(t) == <<t, "update">>

Range(s) == {s[i] : i \in 1..Len(s)}

(***************************************************************************)
(* successful_uses / total_uses as the reduced fraction <<num, den>>.      *)
(* Two float quotients of small integers are equal exactly when the        *)
(* reduced fractions are.                                                  *)
(***************************************************************************)
RECURSIVE GCD(_, _)
GCD(a, b) == IF b = 0 THEN a ELSE GCD(b, a % b)

Quotient(s, t) == IF t > 0 THEN <<s \div GCD(s, t), t \div GCD(s, t)>> ELSE <<0, 1>>

One == <<1, 1>>
Zero == <<0, 1>>

(***************************************************************************)
(* SQLite: one writer at a time.  A connection's first write statement     *)
(* takes the write lock and keeps it until that connection commits or is   *)
(* closed; a write on another connection waits (timeout 5 s) and then      *)
(* raises OperationalError("database is locked").                          *)
(***************************************************************************)
CanWrite(conn) == writeLock \in {Free, conn}

\* SELECT ... WHERE key = ?  on a connection: its own uncommitted rows first
SelectRow(table, pending, key) ==
    IF key \in DOMAIN pending THEN <<pending[key]>>
    ELSE IF key \in DOMAIN table THEN <<table[key]>>
    ELSE NoRow

\* the row written by UPDATE (row found) or INSERT (no row), lines 158-186 / 207-231
UpdatedRow(row, success) ==
    IF row # NoRow
    THEN LET total_uses == row[1].total_uses + 1
             successful_uses == row[1].successful_uses + (IF success THEN 1 ELSE 0)
         IN  [total_uses |-> total_uses,
              successful_uses |-> successful_uses,
              score |-> Quotient(successful_uses, total_uses)]
    ELSE [total_uses |-> 1,
          successful_uses |-> IF success THEN 1 ELSE 0,
          score |-> IF success THEN One ELSE Zero]

\* rows of pending laid over table (COMMIT)
Overlay(table, pending) ==
    [k \in DOMAIN table \cup DOMAIN pending |->
        IF k \in DOMAIN pending THEN pending[k] ELSE table[k]]

\* SELECT key, score FROM table WHERE total_uses > 0
SelectWeights(table) ==
    [k \in {x \in DOMAIN table : table[x].total_uses > 0} |-> table[k].score]

NoCall == [op |-> "none"]
NoRet == [kind |-> "none"]

InFlightRecords == {t \in Threads : pc[t] \notin {"idle", "gn_assign", "gp_assign"}}

Named(c) == Range(c.required_nodes) \cup Range(c.workflow_patterns)

\* what had been asked of the store when a weight read starts
Seen == [returned |-> returnedFor, recorded |-> recorded, quiet |-> InFlightRecords = {}]

FbInit ==
    /\ generation_history = <<>>
    /\ node_effectiveness = EmptyMap
    /\ pattern_success = EmptyMap
    /\ writeLock = Free
    /\ node_success_rates = [i \in Instances |-> EmptyMap]
    /\ pattern_effectiveness = [i \in Instances |-> EmptyMap]
    /\ pc = [t \in Threads |-> "idle"]
    /\ call = [t \in Threads |-> NoCall]
    /\ idx = [t \in Threads |-> 0]
    /\ fetched = [t \in Threads |-> NoRow]
    /\ pendingUpd = [t \in Threads |-> EmptyMap]
    /\ ret = [t \in Threads |-> NoRet]
    /\ nCalls = 0
    /\ recorded = [k \in NodeTypes \cup PatternIds |-> [total |-> 0, successes |-> 0]]
    /\ finishedRecords = 0
    /\ returnedFor = {}
    /\ overlapped = {}

\* bookkeeping when thread t's record_generation ends (returned or raised)
NoteFinished(t, returned) ==
    /\ recorded' = [k \in NodeTypes \cup PatternIds |->
                      IF k \in Named(call[t])
                      THEN [total |-> recorded[k].total + 1,
                            successes |-> recorded[k].successes
                                            + (IF call[t].success THEN 1 ELSE 0)]
                      ELSE recorded[k]]
    /\ finishedRecords' = finishedRecords + 1
    /\ returnedFor' = IF returned THEN returnedFor \cup Named(call[t]) ELSE returnedFor

\* the exception leaves record_generation: nothing is committed, the cache is not
\* cleared, and the connections stay open (with their lock) until collected
Raise(t) ==
    /\ pc' = [pc EXCEPT ![t] = "idle"]
    /\ ret' = [ret EXCEPT ![t] = [kind |-> "raised", op |-> "record_generation",
                                  error |-> "database is locked"]]
    /\ writeLock' = IF writeLock \in {RgConn(t), UpdConn(t)} THEN Orphan ELSE writeLock
    /\ pendingUpd' = [pendingUpd EXCEPT ![t] = EmptyMap]
    /\ call' = [call EXCEPT ![t] = NoCall]
    /\ idx' = [idx EXCEPT ![t] = 0]
    /\ fetched' = [fetched EXCEPT ![t] = NoRow]
    /\ NoteFinished(t, FALSE)

(***************************************************************************)
(* record_generation, lines 88-141                                         *)
(***************************************************************************)
\* line 98: the call starts and opens its connection
RecordGeneration(t, i, nodes, patterns, success, workflow) ==
    /\ UNCHANGED notFb
    /\ pc[t] = "idle"
    /\ nCalls < MaxCalls
    /\ nCalls' = nCalls + 1
    /\ pc' = [pc EXCEPT ![t] = "rg_insert"]
    /\ call' = [call EXCEPT ![t] =
                  [op |-> "record_generation", inst |-> i, required_nodes |-> nodes,
                   workflow_patterns |-> patterns, success |-> success,
                   workflow |-> workflow]]
    /\ overlapped' = overlapped \cup
          {k \in Range(nodes) \cup Range(patterns) :
              \E u \in InFlightRecords \ {t} : k \in Named(call[u])}
    /\ UNCHANGED <<generation_history, node_effectiveness, pattern_success, writeLock,
                   node_success_rates, pattern_effectiveness, idx, fetched,
                   pendingUpd, ret, recorded, finishedRecords, returnedFor>>

\* lines 110-131: INSERT INTO generation_history on the call's own connection
InsertHistory(t) ==
    /\ UNCHANGED notFb
    /\ pc[t] = "rg_insert"
    /\ IF CanWrite(RgConn(t))
       THEN /\ writeLock' = RgConn(t)
            /\ idx' = [idx EXCEPT ![t] = 1]
            /\ pc' = [pc EXCEPT ![t] =
                        IF (call[t].success /\ call[t].workflow) \/ ~call[t].success
                        THEN "un_select" ELSE "up_select"]
            /\ UNCHANGED <<ret, pendingUpd, call, fetched, recorded, finishedRecords,
                           returnedFor>>
       ELSE Raise(t)
    /\ UNCHANGED <<generation_history, node_effectiveness, pattern_success,
                   node_success_rates, pattern_effectiveness, nCalls, overlapped>>

(***************************************************************************)
(* _update_node_effectiveness, lines 143-189 (a connection of its own)     *)
(***************************************************************************)
\* lines 150-156: next node of the loop, SELECT its row; lines 188-189 after the loop
UpdateNodeSelect(t) ==
    /\ UNCHANGED notFb
    /\ pc[t] = "un_select"
    /\ IF idx[t] <= Len(call[t].required_nodes)
       THEN /\ fetched' = [fetched EXCEPT ![t] =
                  SelectRow(node_effectiveness, pendingUpd[t],
                            call[t].required_nodes[idx[t]])]
            /\ pc' = [pc EXCEPT ![t] = "un_write"]
            /\ UNCHANGED <<node_effectiveness, writeLock, pendingUpd, idx>>
       ELSE /\ node_effectiveness' = Overlay(node_effectiveness, pendingUpd[t])
            /\ writeLock' = IF writeLock = UpdConn(t) THEN Free ELSE writeLock
            /\ pendingUpd' = [pendingUpd EXCEPT ![t] = EmptyMap]
            /\ idx' = [idx EXCEPT ![t] = 1]
            /\ pc' = [pc EXCEPT ![t] = "up_select"]
            /\ UNCHANGED fetched
    /\ UNCHANGED <<generation_history, pattern_success, node_success_rates,
                   pattern_effectiveness, call, ret, nCalls, recorded,
                   finishedRecords, returnedFor, overlapped>>

\* lines 158-186: UPDATE or INSERT the node's row
UpdateNodeWrite(t) ==
    /\ UNCHANGED notFb
    /\ pc[t] = "un_write"
    /\ IF CanWrite(UpdConn(t))
       THEN /\ writeLock' = UpdConn(t)
            /\ pendingUpd' = [pendingUpd EXCEPT ![t] =
                  Overlay(pendingUpd[t],
                          [k \in {call[t].required_nodes[idx[t]]} |->
                              UpdatedRow(fetched[t], call[t].success)])]
            /\ idx' = [idx EXCEPT ![t] = idx[t] + 1]
            /\ pc' = [pc EXCEPT ![t] = "un_select"]
            /\ UNCHANGED <<ret, call, fetched, recorded, finishedRecords, returnedFor>>
       ELSE Raise(t)
    /\ UNCHANGED <<generation_history, node_effectiveness, pattern_success,
                   node_success_rates, pattern_effectiveness, nCalls, overlapped>>

(***************************************************************************)
(* _update_pattern_effectiveness, lines 191-234 (a connection of its own)  *)
(***************************************************************************)
\* lines 198-205: next pattern of the loop, SELECT its row; lines 233-234 after the loop
UpdatePatternSelect(t) ==
    /\ UNCHANGED notFb
    /\ pc[t] = "up_select"
    /\ IF idx[t] <= Len(call[t].workflow_patterns)
       THEN /\ fetched' = [fetched EXCEPT ![t] =
                  SelectRow(pattern_success, pendingUpd[t],
                            call[t].workflow_patterns[idx[t]])]
            /\ pc' = [pc EXCEPT ![t] = "up_write"]
            /\ UNCHANGED <<pattern_success, writeLock, pendingUpd, idx>>
       ELSE /\ pattern_success' = Overlay(pattern_success, pendingUpd[t])
            /\ writeLock' = IF writeLock = UpdConn(t) THEN Free ELSE writeLock
            /\ pendingUpd' = [pendingUpd EXCEPT ![t] = EmptyMap]
            /\ idx' = [idx EXCEPT ![t] = 0]
            /\ pc' = [pc EXCEPT ![t] = "rg_commit"]
            /\ UNCHANGED fetched
    /\ UNCHANGED <<generation_history, node_effectiveness, node_success_rates,
                   pattern_effectiveness, call, ret, nCalls, recorded,
                   finishedRecords, returnedFor, overlapped>>

\* lines 207-231: UPDATE or INSERT the pattern's row
UpdatePatternWrite(t) ==
    /\ UNCHANGED notFb
    /\ pc[t] = "up_write"
    /\ IF CanWrite(UpdConn(t))
       THEN /\ writeLock' = UpdConn(t)
            /\ pendingUpd' = [pendingUpd EXCEPT ![t] =
                  Overlay(pendingUpd[t],
                          [k \in {call[t].workflow_patterns[idx[t]]} |->
                              UpdatedRow(fetched[t], call[t].success)])]
            /\ idx' = [idx EXCEPT ![t] = idx[t] + 1]
            /\ pc' = [pc EXCEPT ![t] = "up_select"]
            /\ UNCHANGED <<ret, call, fetched, recorded, finishedRecords, returnedFor>>
       ELSE Raise(t)
    /\ UNCHANGED <<generation_history, node_effectiveness, pattern_success,
                   node_success_rates, pattern_effectiveness, nCalls, overlapped>>

\* lines 136-137: conn.commit(); conn.close()
CommitHistory(t) ==
    /\ UNCHANGED notFb
    /\ pc[t] = "rg_commit"
    /\ generation_history' = Append(generation_history,
          [required_nodes |-> call[t].required_nodes, success |-> call[t].success])
    /\ writeLock' = IF writeLock = RgConn(t) THEN Free ELSE writeLock
    /\ pc' = [pc EXCEPT ![t] = "rg_clear"]
    /\ UNCHANGED <<node_effectiveness, pattern_success, node_success_rates,
                   pattern_effectiveness, call, idx, fetched, pendingUpd, ret, nCalls,
                   recorded, finishedRecords, returnedFor, overlapped>>

\* lines 139-141: clear this instance's caches; the call returns
ClearCache(t) ==
    /\ UNCHANGED notFb
    /\ pc[t] = "rg_clear"
    /\ node_success_rates' = [node_success_rates EXCEPT ![call[t].inst] = EmptyMap]
    /\ pattern_effectiveness' = [pattern_effectiveness EXCEPT ![call[t].inst] = EmptyMap]
    /\ pc' = [pc EXCEPT ![t] = "idle"]
    /\ ret' = [ret EXCEPT ![t] = [kind |-> "returned", op |-> "record_generation"]]
    /\ call' = [call EXCEPT ![t] = NoCall]
    /\ NoteFinished(t, TRUE)
    /\ UNCHANGED <<generation_history, node_effectiveness, pattern_success, writeLock,
                   idx, fetched, pendingUpd, nCalls, overlapped>>

\* the connections a raised call left behind are closed by the garbage collector:
\* their transaction is rolled back and the lock released
CollectConnection ==
    /\ UNCHANGED notFb
    /\ writeLock = Orphan
    /\ writeLock' = Free
    /\ UNCHANGED <<generation_history, node_effectiveness, pattern_success,
                   node_success_rates, pattern_effectiveness, pc, call, idx, fetched,
                   pendingUpd, ret, nCalls, recorded, finishedRecords, returnedFor,
                   overlapped>>

(***************************************************************************)
(* get_node_weights, lines 236-254, and get_pattern_weights, lines 256-274 *)
(***************************************************************************)
\* line 238: cache hit returns at once; otherwise lines 239-246, the SELECT
GetNodeWeights(t, i) ==
    /\ UNCHANGED notFb
    /\ pc[t] = "idle"
    /\ nCalls < MaxCalls
    /\ nCalls' = nCalls + 1
    /\ IF node_success_rates[i] # EmptyMap
       THEN /\ ret' = [ret EXCEPT ![t] =
                  [kind |-> "weights", op |-> "get_node_weights",
                   value |-> node_success_rates[i], after |-> Seen]]
            /\ UNCHANGED <<pc, call, fetched>>
       ELSE /\ fetched' = [fetched EXCEPT ![t] = SelectWeights(node_effectiveness)]
            /\ call' = [call EXCEPT ![t] =
                  [op |-> "get_node_weights", inst |-> i, after |-> Seen]]
            /\ pc' = [pc EXCEPT ![t] = "gn_assign"]
            /\ UNCHANGED ret
    /\ UNCHANGED <<generation_history, node_effectiveness, pattern_success, writeLock,
                   node_success_rates, pattern_effectiveness, idx, pendingUpd,
                   recorded, finishedRecords, returnedFor, overlapped>>

\* lines 248-254: store the rows in the cache and return the cache
AssignNodeWeights(t) ==
    /\ UNCHANGED notFb
    /\ pc[t] = "gn_assign"
    /\ node_success_rates' = [node_success_rates EXCEPT ![call[t].inst] = fetched[t]]
    /\ ret' = [ret EXCEPT ![t] =
          [kind |-> "weights", op |-> "get_node_weights",
           value |-> fetched[t], after |-> call[t].after]]
    /\ pc' = [pc EXCEPT ![t] = "idle"]
    /\ call' = [call EXCEPT ![t] = NoCall]
    /\ fetched' = [fetched EXCEPT ![t] = NoRow]
    /\ UNCHANGED <<generation_history, node_effectiveness, pattern_success, writeLock,
                   pattern_effectiveness, idx, pendingUpd, nCalls, recorded,
                   finishedRecords, returnedFor, overlapped>>

\* line 258: cache hit returns at once; otherwise lines 259-266, the SELECT
GetPatternWeights(t, i) ==
    /\ UNCHANGED notFb
    /\ pc[t] = "idle"
    /\ nCalls < MaxCalls
    /\ nCalls' = nCalls + 1
    /\ IF pattern_effectiveness[i] # EmptyMap
       THEN /\ ret' = [ret EXCEPT ![t] =
                  [kind |-> "weights", op |-> "get_pattern_weights",
                   value |-> pattern_effectiveness[i], after |-> Seen]]
            /\ UNCHANGED <<pc, call, fetched>>
       ELSE /\ fetched' = [fetched EXCEPT ![t] = SelectWeights(pattern_success)]
            /\ call' = [call EXCEPT ![t] =
                  [op |-> "get_pattern_weights", inst |-> i, after |-> Seen]]
            /\ pc' = [pc EXCEPT ![t] = "gp_assign"]
            /\ UNCHANGED ret
    /\ UNCHANGED <<generation_history, node_effectiveness, pattern_success, writeLock,
                   node_success_rates, pattern_effectiveness, idx, pendingUpd,
                   recorded, finishedRecords, returnedFor, overlapped>>

\* lines 268-274: store the rows in the cache and return the cache
AssignPatternWeights(t) ==
    /\ UNCHANGED notFb
    /\ pc[t] = "gp_assign"
    /\ pattern_effectiveness' = [pattern_effectiveness EXCEPT ![call[t].inst] = fetched[t]]
    /\ ret' = [ret EXCEPT ![t] =
          [kind |-> "weights", op |-> "get_pattern_weights",
           value |-> fetched[t], after |-> call[t].after]]
    /\ pc' = [pc EXCEPT ![t] = "idle"]
    /\ call' = [call EXCEPT ![t] = NoCall]
    /\ fetched' = [fetched EXCEPT ![t] = NoRow]
    /\ UNCHANGED <<generation_history, node_effectiveness, pattern_success, writeLock,
                   node_success_rates, idx, pendingUpd, nCalls, recorded,
                   finishedRecords, returnedFor, overlapped>>

FbNext ==
    \/ \E t \in Threads, i \in Instances, nodes \in NodeLists, patterns \in PatternLists,
          success \in BOOLEAN, workflow \in BOOLEAN :
            RecordGeneration(t, i, nodes, patterns, success, workflow)
    \/ \E t \in Threads : InsertHistory(t)
    \/ \E t \in Threads : UpdateNodeSelect(t)
    \/ \E t \in Threads : UpdateNodeWrite(t)
    \/ \E t \in Threads : UpdatePatternSelect(t)
    \/ \E t \in Threads : UpdatePatternWrite(t)
    \/ \E t \in Threads : CommitHistory(t)
    \/ \E t \in Threads : ClearCache(t)
    \/ CollectConnection
    \/ \E t \in Threads, i \in Instances : GetNodeWeights(t, i)
    \/ \E t \in Threads : AssignNodeWeights(t)
    \/ \E t \in Threads, i \in Instances : GetPatternWeights(t, i)
    \/ \E t \in Threads : AssignPatternWeights(t)

(***************************************************************************)
(* Strings (Python str): in, lower(), strip()                              *)
(***************************************************************************)
\* keyword in query
Contains(keyword, text) ==
    \E i \in 1..(Len(text) - Len(keyword) + 1) :
        SubSeq(text, i, i + Len(keyword) - 1) = keyword

UpperCase == "ABCDEFGHIJKLMNOPQRSTUVWXYZ"
LowerCase == "abcdefghijklmnopqrstuvwxyz"

LowerChar(c) ==
    IF \E i \in 1..Len(UpperCase) : SubSeq(UpperCase, i, i) = c
    THEN LET i == CHOOSE j \in 1..Len(UpperCase) : SubSeq(UpperCase, j, j) = c
         IN  SubSeq(LowerCase, i, i)
    ELSE c

\* str.lower(): every character lowered, by halves
RECURSIVE Lower(_)
Lower(text) ==
    IF text = "" THEN ""
    ELSE IF Len(text) = 1 THEN LowerChar(text)
    ELSE Lower(SubSeq(text, 1, Len(text) \div 2))
            \o Lower(SubSeq(text, Len(text) \div 2 + 1, Len(text)))

Whitespace == {" ", "\t", "\n"}

\* str.strip()
Strip(text) ==
    LET inked == {i \in 1..Len(text) : SubSeq(text, i, i) \notin Whitespace}
    IN  IF inked = {} THEN ""
        ELSE SubSeq(text, CHOOSE i \in inked : \A j \in inked : i <= j,
                          CHOOSE i \in inked : \A j \in inked : i >= j)

(***************************************************************************)
(* N8nQueryProcessor.__init__: the tables, lines 44-97                     *)
(***************************************************************************)
MULTI_STEP_WORKFLOW == "multi_step_workflow"

\* the keys of intent_keywords in the dict's (insertion) order, lines 46-74
IntentOrder ==
    <<"webhook_trigger", "api_integration", "data_transformation",
      "database_operation", "ai_automation", "notification", "file_processing",
      "scheduling", "error_handling">>

WorkflowIntent == Range(IntentOrder) \cup {MULTI_STEP_WORKFLOW}

intent_keywords ==
    [webhook_trigger |->
        <<"webhook", "trigger", "receive", "endpoint", "listen", "http post", "incoming">>,
     api_integration |->
        <<"api", "rest", "http", "request", "fetch", "get", "post", "external", "service">>,
     data_transformation |->
        <<"transform", "convert", "process", "modify", "format", "parse", "extract", "filter">>,
     database_operation |->
        <<"database", "db", "sql", "postgres", "mysql", "mongodb", "query", "insert", "update">>,
     ai_automation |->
        <<"ai", "gpt", "openai", "llm", "artificial intelligence", "ml", "summarize",
          "summarise", "analyze", "analyse", "generate text", "completion">>,
     notification |->
        <<"notify", "alert", "email", "slack", "discord", "telegram", "send", "message">>,
     file_processing |->
        <<"file", "csv", "excel", "pdf", "upload", "download", "read", "write", "storage">>,
     scheduling |->
        <<"schedule", "cron", "timer", "interval", "daily", "weekly", "periodic", "recurring">>,
     error_handling |->
        <<"error", "retry", "fail", "exception", "handle", "catch", "fallback", "recovery">>]

WEBHOOK == "n8n-nodes-base.webhook"
HTTP_REQUEST == "n8n-nodes-base.httpRequest"
CODE == "n8n-nodes-base.code"
POSTGRES == "n8n-nodes-base.postgres"
SLACK == "n8n-nodes-base.slack"
SCHEDULE_TRIGGER == "n8n-nodes-base.scheduleTrigger"
OPENAI == "@n8n/n8n-nodes-langchain.openAi"
CHAT_OPENAI == "@n8n/n8n-nodes-langchain.chatOpenAi"
AGENT == "@n8n/n8n-nodes-langchain.agent"

intent_to_nodes ==
    [webhook_trigger |-> <<WEBHOOK>>,
     api_integration |-> <<HTTP_REQUEST>>,
     data_transformation |-> <<CODE, "n8n-nodes-base.function", "n8n-nodes-base.itemLists">>,
     database_operation |-> <<POSTGRES, "n8n-nodes-base.mysql", "n8n-nodes-base.mongodb">>,
     ai_automation |-> <<OPENAI>>,
     notification |-> <<SLACK, "n8n-nodes-base.emailSend", "n8n-nodes-base.discord">>,
     file_processing |-> <<"n8n-nodes-base.readBinaryFiles", "n8n-nodes-base.spreadsheetFile">>,
     scheduling |-> <<SCHEDULE_TRIGGER, "n8n-nodes-base.cron">>,
     error_handling |-> <<"n8n-nodes-base.errorTrigger", "n8n-nodes-base.stopAndError">>]

\* lines 153, 159-160, 166-167, 173, 179
trigger_words == <<"when", "on", "trigger", "receive", "schedule", "every">>
services ==
    <<"slack", "email", "discord", "telegram", "google", "github",
      "gitlab", "jira", "notion", "airtable", "salesforce", "hubspot">>
action_words ==
    <<"send", "create", "update", "delete", "fetch", "transform",
      "notify", "store", "process", "analyze", "generate">>
data_types == <<"json", "csv", "xml", "pdf", "image", "file", "data", "message", "email">>
condition_words == <<"if", "when", "filter", "contains", "equals", "greater", "less">>

\* lines 200-222
service_to_node ==
    ("slack" :> SLACK) @@ ("email" :> "n8n-nodes-base.emailSend")
    @@ ("discord" :> "n8n-nodes-base.discord") @@ ("telegram" :> "n8n-nodes-base.telegram")
    @@ ("google" :> "n8n-nodes-base.googleSheets") @@ ("github" :> "n8n-nodes-base.github")
    @@ ("postgres" :> POSTGRES) @@ ("mysql" :> "n8n-nodes-base.mysql")
    @@ ("mongodb" :> "n8n-nodes-base.mongodb") @@ ("openai" :> OPENAI) @@ ("gpt" :> OPENAI)
    @@ ("chatgpt" :> CHAT_OPENAI) @@ ("summarize" :> OPENAI) @@ ("summarise" :> OPENAI)
    @@ ("analyze" :> OPENAI) @@ ("completion" :> OPENAI) @@ ("ai_agent" :> CHAT_OPENAI)
    @@ ("conversational_ai" :> CHAT_OPENAI) @@ ("langchain" :> CHAT_OPENAI)
    @@ ("intelligent_agent" :> AGENT) @@ ("reasoning_agent" :> AGENT)

(***************************************************************************)
(* _detect_intent, lines 126-140                                           *)
(***************************************************************************)
\* line 131: sum(1 for keyword in keywords if keyword in query)
KeywordScore(intent, text) ==
    Cardinality({i \in 1..Len(intent_keywords[intent]) :
                    Contains(intent_keywords[intent][i], text)})

\* lines 128-133: intent_scores, the dict of the positive scores as the sequence
\* of its items <<intent, score>> in insertion order
RECURSIVE IntentScoresFrom(_, _)
IntentScoresFrom(i, text) ==
    IF i > Len(IntentOrder) THEN <<>>
    ELSE LET score == KeywordScore(IntentOrder[i], text)
         IN  (IF score > 0 THEN <<(<<IntentOrder[i], score>>)>> ELSE <<>>)
                \o IntentScoresFrom(i + 1, text)

RECURSIVE PyMaxFrom(_, _, _)
PyMaxFrom(items, i, best) ==
    IF i > Len(items) THEN items[best][1]
    ELSE PyMaxFrom(items, i + 1, IF items[i][2] >= items[best][2] THEN i ELSE best)

\* PyMax with ties broken the other way: the last key with the highest score
PyMaxLast(items) == PyMaxFrom(items, 2, 1)

\* max(intent_scores, key=intent_scores.get): the first key with the highest score
RECURSIVE PyMaxStep(_, _, _)
PyMaxStep(items, i, best) ==
    IF i > Len(items) THEN items[best][1]
    ELSE PyMaxStep(items, i + 1, IF items[i][2] > items[best][2] THEN i ELSE best)

PyMax(items) == PyMaxStep(items, 2, 1)

_detect_intent(text) ==
    LET intent_scores == IntentScoresFrom(1, text)
    IN  IF intent_scores # <<>> THEN PyMax(intent_scores) ELSE MULTI_STEP_WORKFLOW

(***************************************************************************)
(* _extract_entities, lines 142-184                                        *)
(***************************************************************************)
Scan(words, text) == SelectSeq(words, LAMBDA w : Contains(w, text))

_extract_entities(text) ==
    [triggers |-> Scan(trigger_words, text),
     actions |-> Scan(action_words, text),
     services |-> Scan(services, text),
     data_types |-> Scan(data_types, text),
     conditions |-> Scan(condition_words, text)]

(***************************************************************************)
(* _identify_required_nodes, lines 186-242                                 *)
(***************************************************************************)
\* lines 224-228: one node per detected service, skipped when already listed
RECURSIVE AddServiceNodes(_, _, _)
AddServiceNodes(nodes, found, i) ==
    IF i > Len(found) THEN nodes
    ELSE AddServiceNodes(
            IF found[i] \in DOMAIN service_to_node
               /\ service_to_node[found[i]] \notin Range(nodes)
            THEN Append(nodes, service_to_node[found[i]])
            ELSE nodes,
            found, i + 1)

\* line 236: any("Trigger" in node for node in required_nodes)
HasTriggerNode(nodes) == \E i \in 1..Len(nodes) : Contains("Trigger", nodes[i])

\* InsertFirst at the wrong end: list.append(node)
InsertLast(nodes, node) == Append(nodes, node)

\* list.insert(0, node)
InsertFirst(nodes, node) == <<node>> \o nodes

_identify_required_nodes(text, intent, entities) ==
    LET seeded == IF intent \in DOMAIN intent_to_nodes THEN intent_to_nodes[intent] ELSE <<>>
        withServices == AddServiceNodes(seeded, entities.services, 1)
        withCode ==
            IF (entities.conditions # <<>> \/ "transform" \in Range(entities.actions))
               /\ CODE \notin Range(withServices)
            THEN Append(withServices, CODE)
            ELSE withServices
    IN  IF entities.triggers # <<>> /\ ~HasTriggerNode(withCode)
        THEN IF Contains("schedule", text) \/ Contains("every", text)
             THEN InsertFirst(withCode, SCHEDULE_TRIGGER)
             ELSE InsertFirst(withCode, WEBHOOK)
        ELSE withCode

(***************************************************************************)
(* _assess_complexity, lines 244-255                                       *)
(***************************************************************************)
_assess_complexity(required_nodes, entities) ==
    LET node_count == Len(required_nodes)
        has_conditions == entities.conditions # <<>>
    IN  IF node_count <= 2 /\ ~has_conditions THEN "simple"
        ELSE IF node_count <= 4 \/ (node_count <= 3 /\ has_conditions) THEN "moderate"
        ELSE "complex"

(***************************************************************************)
(* analyze_query, lines 99-124                                             *)
(***************************************************************************)
analyze_query(text) ==
    LET cleaned_query == Strip(Lower(text))
        intent == _detect_intent(cleaned_query)
        entities == _extract_entities(cleaned_query)
        required_nodes == _identify_required_nodes(cleaned_query, intent, entities)
        complexity == _assess_complexity(required_nodes, entities)
    IN  [original_query |-> text,
         cleaned_query |-> cleaned_query,
         intent |-> intent,
         entities |-> entities,
         required_nodes |-> required_nodes,
         workflow_complexity |-> complexity]

NoEntities ==
    [triggers |-> <<>>, actions |-> <<>>, services |-> <<>>, data_types |-> <<>>,
     conditions |-> <<>>]

\* no analysis made yet of the query as it stands
NoAnalysis ==
    [original_query |-> "", cleaned_query |-> "", intent |-> "none",
     entities |-> NoEntities, required_nodes |-> <<>>, workflow_complexity |-> "none"]

\* the user's phrases; a query is up to MaxPhrases of them, separated by blanks
MaxPhrases == 3

Phrases ==
    {"every day at 7am", "fetch data from an api and store in postgres",
     "Send a Slack message", "when a webhook is received", " Receive a Webhook ",
     "filter and transform csv", "schedule daily email", "retry on error"}

QInit ==
    /\ query = ""
    /\ nPhrases = 0
    /\ analysis = NoAnalysis

\* the user extends the query
TypePhrase(p) ==
    /\ nPhrases < MaxPhrases
    /\ query' = IF query = "" THEN p ELSE query \o " " \o p
    /\ nPhrases' = nPhrases + 1
    /\ analysis' = NoAnalysis
    /\ UNCHANGED notQ

\* analysis = processor.analyze_query(query)
AnalyzeQuery ==
    /\ analysis = NoAnalysis
    /\ analysis' = analyze_query(query)
    /\ UNCHANGED <<query, nPhrases>>
    /\ UNCHANGED notQ

QNext ==
    \/ \E p \in Phrases : TypePhrase(p)
    \/ AnalyzeQuery

\* arguments of _assess_complexity: up to MaxBlocks required nodes
MaxBlocks == 6

Blocks == {WEBHOOK, SLACK}
ConditionLists == {<<>>, <<"if">>, <<"when", "filter">>}

CxInit ==
    /\ cxNodes = <<>>
    /\ cxConditions = <<>>
    /\ cxResult = "none"

AddBlock(b) ==
    /\ Len(cxNodes) < MaxBlocks
    /\ cxNodes' = Append(cxNodes, b)
    /\ cxResult' = "none"
    /\ UNCHANGED cxConditions
    /\ UNCHANGED notCx

FindConditions(c) ==
    /\ cxConditions # c
    /\ cxConditions' = c
    /\ cxResult' = "none"
    /\ UNCHANGED cxNodes
    /\ UNCHANGED notCx

\* cxResult = processor._assess_complexity(cxNodes, entities)
AssessComplexity ==
    /\ cxResult = "none"
    /\ cxResult' = _assess_complexity(cxNodes, [NoEntities EXCEPT !.conditions = cxConditions])
    /\ UNCHANGED <<cxNodes, cxConditions>>
    /\ UNCHANGED notCx

CxNext ==
    \/ \E b \in Blocks : AddBlock(b)
    \/ \E c \in ConditionLists : FindConditions(c)
    \/ AssessComplexity

(***************************************************************************)
(* The vector store as AdvancedN8nRetriever sees it.  A hit is a document  *)
(* with its metadata and its distance to the query embedding; distances    *)
(* are counted in tenths, relevance scores are exact fractions <<n, d>>.   *)
(***************************************************************************)
\* line 481
collection_names == <<"n8n_nodes", "n8n_templates", "n8n_tasks", "n8n_connections">>

\* collection.query(...) calls of one retrieval: <<collection, query variant>>
Requests ==
    {<<"n8n_nodes", 1>>, <<"n8n_nodes", 2>>, <<"n8n_templates", 1>>,
     <<"n8n_tasks", 1>>, <<"n8n_connections", 1>>}

Min(a, b) == IF a <= b THEN a ELSE b

\* s[:n]
Head_(s, n) == SubSeq(s, 1, Min(n, Len(s)))

\* a < b, a <= b on fractions with positive denominators
Less(a, b) == a[1] * b[2] < b[1] * a[2]
AtMost(a, b) == a[1] * b[2] <= b[1] * a[2]

\* line 617: 1 - (distance / 2), distance in tenths
RelevanceScore(distance) == Quotient(20 - distance, 20)

\* lines 604-620: the store's identifier of a hit is dropped
RECURSIVE FormatFrom(_, _)
FormatFrom(raw_results, i) ==
    IF i > Len(raw_results) THEN <<>>
    ELSE <<[content |-> raw_results[i].content,
            metadata |-> raw_results[i].metadata,
            relevance_score |-> RelevanceScore(raw_results[i].distance)]>>
         \o FormatFrom(raw_results, i + 1)

_format_results(raw_results) == FormatFrom(raw_results, 1)

\* collection.query(query_embeddings=[e], n_results=n): the n nearest hits
QueryCollection(ans, request, n_results) == Head_(ans[request], n_results)

\* r put ahead of the results that score the same
InsertAheadOfEquals(sorted, r) ==
    LET ahead == {i \in 1..Len(sorted) : Less(r.relevance_score, sorted[i].relevance_score)}
        n == Cardinality(ahead)
    IN  SubSeq(sorted, 1, n) \o <<r>> \o SubSeq(sorted, n + 1, Len(sorted))

\* line 570: sorted(..., key=relevance_score, reverse=True) keeps equal
\* scores in their order: r goes behind every result that scores as much
InsertByScore(sorted, r) ==
    LET ahead == {i \in 1..Len(sorted) : AtMost(r.relevance_score, sorted[i].relevance_score)}
        n == Cardinality(ahead)
    IN  SubSeq(sorted, 1, n) \o <<r>> \o SubSeq(sorted, n + 1, Len(sorted))

RECURSIVE SortedByScore(_, _, _)
SortedByScore(node_results, i, sorted) ==
    IF i > Len(node_results) THEN sorted
    ELSE SortedByScore(node_results, i + 1, InsertByScore(sorted, node_results[i]))

\* line 571: the key of the deduplication
PrefixLen == 100
ContentPrefix(content) == Head_(content, PrefixLen)

\* lines 569-576; hash is Python's str hash of this process
RECURSIVE Deduplicate(_, _, _, _, _, _)
Deduplicate(sorted, i, seen, nodes, k_per_stage, hash) ==
    IF i > Len(sorted) THEN nodes
    ELSE LET content_hash == hash[ContentPrefix(sorted[i].content)]
         IN  IF content_hash \in seen
             THEN Deduplicate(sorted, i + 1, seen, nodes, k_per_stage, hash)
             ELSE IF Len(nodes) + 1 >= k_per_stage
                  THEN Append(nodes, sorted[i])
                  ELSE Deduplicate(sorted, i + 1, seen \cup {content_hash},
                                   Append(nodes, sorted[i]), k_per_stage, hash)

\* lines 560-566: the hits of the first two query embeddings, in that order
RECURSIVE NodeResults(_, _, _, _)
NodeResults(ans, variant, nVariants, k_per_stage) ==
    IF variant > nVariants THEN <<>>
    ELSE _format_results(QueryCollection(ans, <<"n8n_nodes", variant>>, k_per_stage))
            \o NodeResults(ans, variant + 1, nVariants, k_per_stage)

\* the first k_per_stage sorted results, whatever their content
SortedNodes(node_results, k_per_stage, hash) ==
    Head_(SortedByScore(node_results, 1, <<>>), k_per_stage)

\* lines 568-576
DeduplicatedNodes(node_results, k_per_stage, hash) ==
    Deduplicate(SortedByScore(node_results, 1, <<>>), 1, {}, <<>>, k_per_stage, hash)

\* every stage run, loaded or not
EveryStage(nQueries, k_per_stage, colls, ans, hash) ==
    [nodes |-> DeduplicatedNodes(NodeResults(ans, 1, Min(2, nQueries), k_per_stage),
                                 k_per_stage, hash),
     templates |->
        _format_results(QueryCollection(ans, <<"n8n_templates", 1>>, Min(k_per_stage, 3))),
     tasks |->
        _format_results(QueryCollection(ans, <<"n8n_tasks", 1>>, Min(k_per_stage, 3))),
     connections |->
        _format_results(QueryCollection(ans, <<"n8n_connections", 1>>, Min(k_per_stage, 2)))]

\* lines 548-602, when no call raises
_multi_stage_retrieval(nQueries, k_per_stage, colls, ans, hash) ==
    [nodes |->
        IF "n8n_nodes" \in colls
        THEN DeduplicatedNodes(NodeResults(ans, 1, Min(2, nQueries), k_per_stage),
                               k_per_stage, hash)
        ELSE <<>>,
     templates |->
        IF "n8n_templates" \in colls
        THEN _format_results(QueryCollection(ans, <<"n8n_templates", 1>>, Min(k_per_stage, 3)))
        ELSE <<>>,
     tasks |->
        IF "n8n_tasks" \in colls
        THEN _format_results(QueryCollection(ans, <<"n8n_tasks", 1>>, Min(k_per_stage, 3)))
        ELSE <<>>,
     connections |->
        IF "n8n_connections" \in colls
        THEN _format_results(QueryCollection(ans, <<"n8n_connections", 1>>, Min(k_per_stage, 2)))
        ELSE <<>>]

\* encode (line 556) or the query of a loaded collection raises: nothing
\* in lines 540-602 catches it
Raises(colls, fault) == fault = "encode" \/ fault \in colls

(***************************************************************************)
(* Documents of the store and the calls of _multi_stage_retrieval          *)
(***************************************************************************)
\* the k_per_stage values tried, and the longest answer of the store
MaxK == 2

WebhookHead ==
    "Node: Webhook\nType: n8n-nodes-base.webhook\nCategory: trigger\nDescription: Starts the workflow when a"

\* two node chunks with the same first 100 characters, and a short one
NodeDocs ==
    {[id |-> "n1", content |-> WebhookHead \o " webhook is called",
      metadata |-> [node_type |-> WEBHOOK, chunk_type |-> "node_overview"]],
     [id |-> "n2", content |-> WebhookHead \o "n HTTP request arrives",
      metadata |-> [node_type |-> WEBHOOK, chunk_type |-> "node_documentation"]],
     [id |-> "n3",
      content |-> "Node: Slack\nType: n8n-nodes-base.slack\nCategory: output\nDescription: Sends messages to Slack",
      metadata |-> [node_type |-> SLACK, chunk_type |-> "node_overview"]]}

TemplateDocs ==
    {[id |-> "w1", content |-> "Workflow Template: Webhook to Slack",
      metadata |-> [template_id |-> "1", chunk_type |-> "workflow_pattern"]],
     [id |-> "w2", content |-> "Workflow Template: Daily report",
      metadata |-> [chunk_type |-> "workflow_pattern"]]}

DocsOf(request) ==
    IF request[1] = "n8n_nodes" THEN NodeDocs
    ELSE IF request[1] = "n8n_templates" THEN TemplateDocs
    ELSE {}

\* distances in tenths: relevance 0.9 and 0.7
Distances == {2, 6}

\* values of hash() on the prefixes, one function per Python process
Prefixes == {ContentPrefix(d.content) : d \in NodeDocs}
HashFunctions == {h \in [Prefixes -> {1, 2}] : h[WebhookHead] = 1}

NoAnswers == [r \in Requests |-> <<>>]
NoRetrieval == [op |-> "none"]
NoChunks == [nodes |-> <<>>, templates |-> <<>>, tasks |-> <<>>, connections |-> <<>>]

RtInit ==
    /\ collections = Range(collection_names)
    /\ answers = NoAnswers
    /\ rtCall = NoRetrieval
    /\ results = [raised |-> FALSE, chunks |-> NoChunks]
    /\ context = [raised |-> FALSE, value |-> <<>>]

\* the store ranks one more document for a request, no nearer than the last
StoreHit(request, doc, distance) ==
    /\ Len(answers[request]) < MaxK
    /\ \A i \in 1..Len(answers[request]) :
          /\ answers[request][i].id # doc.id
          /\ answers[request][i].distance <= distance
    /\ answers' = [answers EXCEPT ![request] =
          Append(@, [id |-> doc.id, content |-> doc.content,
                     metadata |-> doc.metadata, distance |-> distance])]
    /\ rtCall' = NoRetrieval
    /\ results' = [raised |-> FALSE, chunks |-> NoChunks]
    /\ UNCHANGED <<collections, context>>
    /\ UNCHANGED notRt

\* results = retriever._multi_stage_retrieval(queries, analysis, k_per_stage)
MultiStageRetrieval(nQueries, k_per_stage, hash) ==
    /\ rtCall = NoRetrieval
    /\ rtCall' = [op |-> "_multi_stage_retrieval", nQueries |-> nQueries,
                  k_per_stage |-> k_per_stage, hash |-> hash, fault |-> "none"]
    /\ results' = [raised |-> FALSE,
                   chunks |-> _multi_stage_retrieval(nQueries, k_per_stage,
                                                      collections, answers, hash)]
    /\ UNCHANGED <<collections, answers, context>>
    /\ UNCHANGED notRt

StageNext ==
    \/ \E r \in Requests : \E doc \in DocsOf(r) : \E d \in Distances : StoreHit(r, doc, d)
    \/ \E n \in {1, 2} : \E k \in 1..MaxK : \E h \in HashFunctions :
          MultiStageRetrieval(n, k, h)

(***************************************************************************)
(* expand_query, lines 257-278                                             *)
(***************************************************************************)
intent_expansion ==
    [webhook_trigger |-> "webhook receiver http endpoint trigger",
     api_integration |-> "http request api call rest service",
     data_transformation |-> "transform data javascript code function",
     ai_automation |-> "ai agent llm automation gpt openai",
     notification |-> "send notification message alert"]

\* node.split(".")[-1]
LastPart(node) ==
    LET dots == {i \in 1..Len(node) : SubSeq(node, i, i) = "."}
    IN  IF dots = {} THEN node
        ELSE SubSeq(node, (CHOOSE i \in dots : \A j \in dots : j <= i) + 1, Len(node))

RECURSIVE NodeQueries(_, _)
NodeQueries(required_nodes, i) ==
    IF i > Len(required_nodes) THEN <<>>
    ELSE <<LastPart(required_nodes[i]) \o " node configuration example">>
         \o NodeQueries(required_nodes, i + 1)

expand_query(a) ==
    <<a.cleaned_query>>
    \o (IF a.intent \in DOMAIN intent_expansion THEN <<intent_expansion[a.intent]>> ELSE <<>>)
    \o NodeQueries(a.required_nodes, 1)

(***************************************************************************)
(* N8nContextAssembler, lines 296-453                                      *)
(***************************************************************************)
\* metadata.get(key, default)
Get(metadata, key, default) ==
    IF key \in DOMAIN metadata THEN metadata[key] ELSE default

\* lines 340-345
NewNodeDoc(node_type) ==
    [node_type |-> node_type, properties |-> EmptyMap, description |-> "",
     configuration |-> EmptyMap]

\* lines 348-357
RECURSIVE NodeDocFrom(_, _, _, _)
NodeDocFrom(node_type, nodes, i, node_doc) ==
    IF i > Len(nodes) THEN node_doc
    ELSE IF Contains(node_type, nodes[i].content)
         THEN LET described ==
                      [node_doc EXCEPT !.description = Head_(nodes[i].content, 500)]
              IN  IF Get(nodes[i].metadata, "node_type", "None") = node_type
                  THEN [described EXCEPT !.properties = nodes[i].metadata]
                  ELSE NodeDocFrom(node_type, nodes, i + 1, described)
         ELSE NodeDocFrom(node_type, nodes, i + 1, node_doc)

_get_node_documentation(node_type, retrieved_chunks) ==
    NodeDocFrom(node_type, retrieved_chunks.nodes, 1, NewNodeDoc(node_type))

\* lines 317-320; a dict with keys is true
RECURSIVE NodeDocumentation(_, _, _)
NodeDocumentation(required_nodes, retrieved_chunks, i) ==
    IF i > Len(required_nodes) THEN <<>>
    ELSE LET node_docs == _get_node_documentation(required_nodes[i], retrieved_chunks)
         IN  (IF DOMAIN node_docs # {} THEN <<node_docs>> ELSE <<>>)
             \o NodeDocumentation(required_nodes, retrieved_chunks, i + 1)

\* every template is a pattern, whatever its score
RECURSIVE AllPatternsFrom(_, _)
AllPatternsFrom(templates, i) ==
    IF i > Len(templates) THEN <<>>
    ELSE <<[pattern |-> Get(templates[i].metadata, "template_id", "unknown"),
            description |-> Head_(templates[i].content, 300),
            relevance |-> templates[i].relevance_score]>>
         \o AllPatternsFrom(templates, i + 1)

\* lines 366-373
RECURSIVE PatternsFrom(_, _)
PatternsFrom(templates, i) ==
    IF i > Len(templates) THEN <<>>
    ELSE (IF Less(<<7, 10>>, templates[i].relevance_score)
          THEN <<[pattern |-> Get(templates[i].metadata, "template_id", "unknown"),
                  description |-> Head_(templates[i].content, 300),
                  relevance |-> templates[i].relevance_score]>>
          ELSE <<>>)
         \o PatternsFrom(templates, i + 1)

UnfilteredPatterns(retrieved_chunks) == AllPatternsFrom(retrieved_chunks.templates, 1)

\* lines 361-375
_get_workflow_patterns(retrieved_chunks) ==
    Head_(PatternsFrom(retrieved_chunks.templates, 1), 3)

\* lines 382-387
RECURSIVE ExamplesFrom(_, _)
ExamplesFrom(tasks, i) ==
    IF i > Len(tasks) THEN <<>>
    ELSE (IF Less(<<6, 10>>, tasks[i].relevance_score)
          THEN <<[type |-> "task_configuration", content |-> Head_(tasks[i].content, 400)]>>
          ELSE <<>>)
         \o ExamplesFrom(tasks, i + 1)

\* lines 377-389
_get_relevant_examples(retrieved_chunks) == Head_(ExamplesFrom(retrieved_chunks.tasks, 1), 2)

\* lines 391-410
_get_validation_rules(required_nodes) ==
    <<"Workflow must have at least one trigger node",
      "All node connections must be valid",
      "Node IDs must be unique",
      "Position arrays must have [x, y] coordinates">>
    \o (IF HasTriggerNode(required_nodes)
        THEN <<"Only one trigger node per workflow">> ELSE <<>>)
    \o (IF "nodes-base.webhook" \in Range(required_nodes)
        THEN <<"Webhook must have httpMethod and path parameters">> ELSE <<>>)
    \o (IF "nodes-base.code" \in Range(required_nodes)
        THEN <<"Code node must have valid JavaScript in jsCode parameter">> ELSE <<>>)

\* sep.join(items)
RECURSIVE Join(_, _, _)
Join(sep, items, i) ==
    IF i > Len(items) THEN ""
    ELSE IF i = Len(items) THEN items[i]
    ELSE items[i] \o sep \o Join(sep, items, i + 1)

RECURSIVE NodeDocLines(_, _)
NodeDocLines(node_documentation, i) ==
    IF i > Len(node_documentation) THEN ""
    ELSE "\n" \o node_documentation[i].node_type \o ":\n"
         \o node_documentation[i].description \o "\n"
         \o NodeDocLines(node_documentation, i + 1)

RECURSIVE PatternLines(_, _)
PatternLines(workflow_patterns, i) ==
    IF i > Len(workflow_patterns) THEN ""
    ELSE "- " \o workflow_patterns[i].description \o "\n"
         \o PatternLines(workflow_patterns, i + 1)

RECURSIVE ExampleLines(_, _)
ExampleLines(examples, i) ==
    IF i > Len(examples) THEN ""
    ELSE examples[i].content \o "\n" \o ExampleLines(examples, i + 1)

RECURSIVE RuleLines(_, _)
RuleLines(rules, i) ==
    IF i > Len(rules) THEN <<>>
    ELSE <<"- " \o rules[i]>> \o RuleLines(rules, i + 1)

\* lines 412-453
_create_structured_prompt(c) ==
    "Generate an n8n workflow JSON for the following request:\n\nUSER REQUEST: "
    \o c.query
    \o "\n\nWORKFLOW REQUIREMENTS:\n- Intent: " \o c.intent
    \o "\n- Complexity: " \o c.complexity
    \o "\n- Required Nodes: " \o Join(", ", c.required_nodes, 1)
    \o "\n\nNODE DOCUMENTATION:\n"
    \o NodeDocLines(c.node_documentation, 1)
    \o (IF c.workflow_patterns # <<>>
        THEN "\nRELEVANT PATTERNS:\n" \o PatternLines(c.workflow_patterns, 1) ELSE "")
    \o (IF c.examples # <<>>
        THEN "\nEXAMPLES:\n" \o ExampleLines(c.examples, 1) ELSE "")
    \o "\nVALIDATION RULES:\n" \o Join("\n", RuleLines(c.validation_rules, 1), 1)
    \o "\n\nINSTRUCTIONS:\n1. Create a complete n8n workflow JSON\n2. Include all required nodes with proper configuration\n3. Set up correct connections between nodes\n4. Use appropriate node IDs and positions\n5. Ensure the workflow follows n8n JSON schema\n\nGenerate the workflow JSON:\n"

\* lines 296-336
assemble_context(query_analysis, retrieved_chunks) ==
    LET c == [query |-> query_analysis.original_query,
              intent |-> query_analysis.intent,
              complexity |-> query_analysis.workflow_complexity,
              required_nodes |-> query_analysis.required_nodes,
              node_documentation |->
                  NodeDocumentation(query_analysis.required_nodes, retrieved_chunks, 1),
              workflow_patterns |-> _get_workflow_patterns(retrieved_chunks),
              examples |-> _get_relevant_examples(retrieved_chunks),
              validation_rules |-> _get_validation_rules(query_analysis.required_nodes),
              prompt |-> ""]
    IN  [c EXCEPT !.prompt = _create_structured_prompt(c)]

(***************************************************************************)
(* AdvancedN8nRetriever: retrieve_for_generation, retrieve_context         *)
(***************************************************************************)
\* lines 483-487: a collection the store lacks is skipped
_load_collections(existing) == {name \in Range(collection_names) : name \in existing}

\* lines 489-538; fault names the call that raises during it
retrieve_for_generation(a, k_per_stage, colls, ans, fault, hash) ==
    IF Raises(colls, fault)
    THEN [raised |-> TRUE, value |-> <<>>]
    ELSE [raised |-> FALSE,
          value |-> assemble_context(a,
              _multi_stage_retrieval(Len(expand_query(a)), k_per_stage, colls, ans, hash))]

\* doc.get("content", "") over the three lists, lines 634-639
RECURSIVE ContentsOf(_, _)
ContentsOf(docs, i) ==
    IF i > Len(docs) THEN <<>>
    ELSE <<Get(docs[i], "content", "")>> \o ContentsOf(docs, i + 1)

\* lines 622-655: k_per_stage is 5, and any exception gives the empty answer
retrieve_context(a, colls, ans, fault, hash) ==
    LET c == retrieve_for_generation(a, 5, colls, ans, fault, hash)
    IN  IF c.raised
        THEN [retrieved_documents |-> <<>>, confidence |-> <<0, 10>>,
              node_documentation |-> <<>>, workflow_patterns |-> <<>>,
              examples |-> <<>>, prompt |-> ""]
        ELSE [retrieved_documents |->
                  ContentsOf(c.value.node_documentation, 1)
                  \o ContentsOf(c.value.workflow_patterns, 1)
                  \o ContentsOf(c.value.examples, 1),
              confidence |-> <<8, 10>>,
              node_documentation |-> c.value.node_documentation,
              workflow_patterns |-> c.value.workflow_patterns,
              examples |-> c.value.examples,
              prompt |-> c.value.prompt]

(***************************************************************************)
(* FeedbackLoop.suggest_improvements, lines 276-340                        *)
(***************************************************************************)
\* WHERE intent = ?: a row holds context.get("intent", "unknown") (line 117),
\* and the contexts recorded by RecordGeneration name no intent
HistoryOfIntent(intent) ==
    IF intent = "unknown" THEN generation_history ELSE <<>>

\* GROUP BY required_nodes ORDER BY COUNT(*) DESC LIMIT 5, over the successes
RECURSIVE GroupsByCount(_, _)
GroupsByCount(rows, left) ==
    LET groups == {rows[i].required_nodes : i \in {j \in 1..Len(rows) : rows[j].success}}
                      \cap left
        Count(g) == Cardinality({i \in 1..Len(rows) :
                                    rows[i].success /\ rows[i].required_nodes = g})
    IN  IF groups = {} THEN <<>>
        ELSE LET g == CHOOSE x \in groups : \A y \in groups : Count(y) <= Count(x)
             IN  <<g>> \o GroupsByCount(rows, groups \ {g})

intent_tips ==
    [webhook_trigger |-> "Always include proper HTTP method and path parameters",
     api_integration |-> "Don't forget authentication configuration",
     data_transformation |-> "Code nodes are effective for complex transformations",
     ai_automation |-> "Ensure AI agent has necessary tools configured",
     notification |-> "Verify channel/recipient configuration"]

\* lines 318-340
_generate_recommendations(intent, patterns) ==
    (IF patterns # <<>>
     THEN <<"For " \o intent \o " workflows, consider using: " \o Join(", ", patterns[1], 1)>>
     ELSE <<>>)
    \o (IF intent \in DOMAIN intent_tips THEN <<intent_tips[intent]>> ELSE <<>>)

\* validation_errors are not kept in the rows here: no common errors
suggest_improvements(intent) ==
    LET rows == HistoryOfIntent(intent)
        successful_patterns ==
            Head_(GroupsByCount(rows, {rows[i].required_nodes : i \in 1..Len(rows)}), 5)
    IN  [intent |-> intent,
         successful_node_combinations |-> successful_patterns,
         common_errors |-> <<>>,
         recommendations |-> _generate_recommendations(intent, successful_patterns)]

(***************************************************************************)
(* EnhancedN8nRetriever.retrieve_with_learning, lines 413-454              *)
(***************************************************************************)
\* lines 429-434
RECURSIVE AdjustNodes(_, _, _)
AdjustNodes(node_documentation, node_weights, i) ==
    IF i > Len(node_documentation) THEN <<>>
    ELSE LET node_doc == node_documentation[i]
         IN  <<IF node_doc.node_type \in DOMAIN node_weights
               THEN [key \in DOMAIN node_doc \cup {"adjusted_relevance"} |->
                        IF key = "adjusted_relevance" THEN node_weights[node_doc.node_type]
                        ELSE node_doc[key]]
               ELSE node_doc>>
             \o AdjustNodes(node_documentation, node_weights, i + 1)

\* line 441: relevance *= weight
Times(a, b) == Quotient(a[1] * b[1], a[2] * b[2])

\* lines 438-441
RECURSIVE WeighPatterns(_, _, _)
WeighPatterns(workflow_patterns, pattern_weights, i) ==
    IF i > Len(workflow_patterns) THEN <<>>
    ELSE LET pattern == workflow_patterns[i]
         IN  <<IF pattern.pattern \in DOMAIN pattern_weights
               THEN [pattern EXCEPT !.relevance = Times(@, pattern_weights[pattern.pattern])]
               ELSE pattern>>
             \o WeighPatterns(workflow_patterns, pattern_weights, i + 1)

\* lines 444-447: sort(key=relevance, reverse=True), equal ones keep their order
RECURSIVE SortedByRelevance(_, _, _)
SortedByRelevance(patterns, i, sorted) ==
    IF i > Len(patterns) THEN sorted
    ELSE LET n == Cardinality({j \in 1..Len(sorted) :
                                  AtMost(patterns[i].relevance, sorted[j].relevance)})
         IN  SortedByRelevance(patterns, i + 1,
                 SubSeq(sorted, 1, n) \o <<patterns[i]>> \o SubSeq(sorted, n + 1, Len(sorted)))

\* get_node_weights / get_pattern_weights of one instance: the cache if it
\* holds anything, else the rows of the table (lines 236-274)
WeightsOf(cache, table) == IF cache # EmptyMap THEN cache ELSE SelectWeights(table)

retrieve_with_learning(c, node_weights, pattern_weights) ==
    IF c.raised THEN c
    ELSE [raised |-> FALSE,
          value |->
            [key \in DOMAIN c.value \cup {"improvement_suggestions"} |->
                IF key = "node_documentation"
                THEN AdjustNodes(c.value.node_documentation, node_weights, 1)
                ELSE IF key = "workflow_patterns"
                THEN SortedByRelevance(
                         WeighPatterns(c.value.workflow_patterns, pattern_weights, 1), 1, <<>>)
                ELSE IF key = "improvement_suggestions"
                THEN suggest_improvements(c.value.intent)
                ELSE c.value[key]]]

(***************************************************************************)
(* The calls of the retrieval pipeline on a few stores                     *)
(***************************************************************************)
Hit(doc, distance) ==
    [id |-> doc.id, content |-> doc.content, metadata |-> doc.metadata,
     distance |-> distance]

NodeDoc(id) == CHOOSE d \in NodeDocs : d.id = id
TemplateDoc(id) == CHOOSE d \in TemplateDocs : d.id = id
TaskDoc(id) ==
    [id |-> id, content |-> "Task " \o id \o ": post a message to a channel",
     metadata |-> [chunk_type |-> "task_configuration"]]
ConnectionDoc ==
    [id |-> "c1", content |-> "Webhook -> Slack",
     metadata |-> [chunk_type |-> "connection_pattern"]]

\* what the store ranks for each request
Stores ==
    {(<<"n8n_nodes", 1>> :> <<Hit(NodeDoc("n1"), 2), Hit(NodeDoc("n3"), 6)>>)
        @@ (<<"n8n_nodes", 2>> :> <<Hit(NodeDoc("n2"), 2)>>)
        @@ (<<"n8n_templates", 1>> :> <<Hit(TemplateDoc("w1"), 2), Hit(TemplateDoc("w2"), 6)>>)
        @@ (<<"n8n_tasks", 1>> :>
               <<Hit(TaskDoc("k1"), 2), Hit(TaskDoc("k2"), 4), Hit(TaskDoc("k3"), 6)>>)
        @@ (<<"n8n_connections", 1>> :> <<Hit(ConnectionDoc, 4)>>),
     (<<"n8n_nodes", 1>> :> <<Hit(NodeDoc("n3"), 2)>>)
        @@ (<<"n8n_nodes", 2>> :> <<>>)
        @@ (<<"n8n_templates", 1>> :> <<Hit(TemplateDoc("w2"), 2), Hit(TemplateDoc("w1"), 4)>>)
        @@ (<<"n8n_tasks", 1>> :> <<Hit(TaskDoc("k1"), 8)>>)
        @@ (<<"n8n_connections", 1>> :> <<>>)}

\* the queries asked, and analyze_query of each
RtQueries == <<"Send a Slack message", "when a webhook is received", "hello">>
RtAnalyses ==
    <<analyze_query(RtQueries[1]), analyze_query(RtQueries[2]), analyze_query(RtQueries[3])>>

KValues == {1, 5}
Faults == {"none", "encode"} \cup Range(collection_names)

\* AdvancedN8nRetriever(...) on a store that has the collections of existing
LoadCollections(existing) ==
    /\ _load_collections(existing) # collections
    /\ collections' = _load_collections(existing)
    /\ rtCall' = NoRetrieval
    /\ results' = [raised |-> FALSE, chunks |-> NoChunks]
    /\ context' = [raised |-> FALSE, value |-> <<>>]
    /\ UNCHANGED answers
    /\ UNCHANGED notRt

\* the store is indexed
Index(store) ==
    /\ answers # store
    /\ answers' = store
    /\ rtCall' = NoRetrieval
    /\ results' = [raised |-> FALSE, chunks |-> NoChunks]
    /\ context' = [raised |-> FALSE, value |-> <<>>]
    /\ UNCHANGED collections
    /\ UNCHANGED notRt

\* the chunks of the call, kept for the claims (a local of lines 514-518)
ChunksOf(q, k_per_stage, fault, hash) ==
    IF Raises(collections, fault)
    THEN [raised |-> TRUE, chunks |-> NoChunks]
    ELSE [raised |-> FALSE,
          chunks |-> _multi_stage_retrieval(Len(expand_query(RtAnalyses[q])), k_per_stage,
                                            collections, answers, hash)]

\* context = retriever.retrieve_for_generation(query, k_per_stage)
RetrieveForGeneration(q, k_per_stage, fault, hash) ==
    /\ rtCall = NoRetrieval
    /\ rtCall' = [op |-> "retrieve_for_generation", query |-> q,
                  nQueries |-> Len(expand_query(RtAnalyses[q])),
                  k_per_stage |-> k_per_stage, hash |-> hash, fault |-> fault]
    /\ results' = ChunksOf(q, k_per_stage, fault, hash)
    /\ context' = retrieve_for_generation(RtAnalyses[q], k_per_stage, collections,
                                          answers, fault, hash)
    /\ UNCHANGED <<collections, answers>>
    /\ UNCHANGED notRt

\* context = retriever.retrieve_context(analysis)
RetrieveContext(q, fault, hash) ==
    /\ rtCall = NoRetrieval
    /\ rtCall' = [op |-> "retrieve_context", query |-> q,
                  nQueries |-> Len(expand_query(RtAnalyses[q])),
                  k_per_stage |-> 5, hash |-> hash, fault |-> fault]
    /\ results' = ChunksOf(q, 5, fault, hash)
    /\ context' = [raised |-> FALSE,
                   value |-> retrieve_context(RtAnalyses[q], collections, answers,
                                              fault, hash)]
    /\ UNCHANGED <<collections, answers>>
    /\ UNCHANGED notRt

\* context = EnhancedN8nRetriever(retriever, feedback loop i)
\*               .retrieve_with_learning(query, k_per_stage)
RetrieveWithLearning(i, q, k_per_stage, fault, hash) ==
    /\ rtCall = NoRetrieval
    /\ \A t \in Threads : pc[t] = "idle"
    /\ rtCall' = [op |-> "retrieve_with_learning", query |-> q,
                  nQueries |-> Len(expand_query(RtAnalyses[q])),
                  k_per_stage |-> k_per_stage, hash |-> hash, fault |-> fault]
    /\ results' = ChunksOf(q, k_per_stage, fault, hash)
    /\ LET c == retrieve_for_generation(RtAnalyses[q], k_per_stage, collections,
                                        answers, fault, hash)
           node_weights == WeightsOf(node_success_rates[i], node_effectiveness)
           pattern_weights == WeightsOf(pattern_effectiveness[i], pattern_success)
       IN  /\ context' = retrieve_with_learning(c, node_weights, pattern_weights)
           /\ IF c.raised
              THEN UNCHANGED <<node_success_rates, pattern_effectiveness>>
              ELSE /\ node_success_rates' = [node_success_rates EXCEPT ![i] = node_weights]
                   /\ pattern_effectiveness' =
                          [pattern_effectiveness EXCEPT ![i] = pattern_weights]
    /\ UNCHANGED <<collections, answers>>
    /\ UNCHANGED <<generation_history, node_effectiveness, pattern_success, writeLock,
                   pc, call, idx, fetched, pendingUpd, ret, nCalls, recorded,
                   finishedRecords, returnedFor, overlapped>>
    /\ UNCHANGED notFbRt

RetrieveNext ==
    \/ \E existing \in SUBSET Range(collection_names) : LoadCollections(existing)
    \/ \E store \in Stores : Index(store)
    \/ \E q \in DOMAIN RtQueries : \E k \in KValues : \E f \in Faults :
          \E h \in HashFunctions : RetrieveForGeneration(q, k, f, h)
    \/ \E q \in DOMAIN RtQueries : \E f \in Faults : \E h \in HashFunctions :
          RetrieveContext(q, f, h)
    \/ \E i \in Instances : \E q \in DOMAIN RtQueries : \E k \in KValues :
          \E f \in Faults : \E h \in HashFunctions : RetrieveWithLearning(i, q, k, f, h)

(***************************************************************************)
(* OllamaWorkflowGenerator (4_ollama_integration.py): service-aware        *)
(* ranking of the hits of n8n_nodes.  Scores are exact fractions           *)
(* <<numerator, denominator>>; bonuses and distances are in tenths.        *)
(***************************************************************************)
\* lines 153-181, in the order of the dict: the services the queries and
\* hits below can mention (no pattern of another service occurs in them)
service_patterns ==
    <<[service |-> "gmail",
       patterns |-> <<"gmail", "google mail", "gmail account", "gmail api">>],
      [service |-> "slack",
       patterns |-> <<"slack", "slack channel", "slack notification">>],
      [service |-> "reddit",
       patterns |-> <<"reddit", "reddit post", "reddit posts", "reddit subreddit",
                      "subreddit", "r/", "/r/", "reddit data", "reddit feed",
                      "reddit api", "from reddit", "reddit content">>],
      [service |-> "smtp",
       patterns |-> <<"smtp", "email server", "mail server">>],
      [service |-> "webhook",
       patterns |-> <<"webhook", "http trigger">>]>>

\* lines 183-190
RECURSIVE DetectFrom(_, _)
DetectFrom(i, text) ==
    IF i > Len(service_patterns) THEN <<>>
    ELSE (IF \E j \in 1..Len(service_patterns[i].patterns) :
                Contains(service_patterns[i].patterns[j], text)
          THEN <<service_patterns[i].service>> ELSE <<>>)
         \o DetectFrom(i + 1, text)

_detect_service_mentions(text) == DetectFrom(1, text)

\* metadata node_type of the hits: catalog blocks, blocks of other packages
\* and a hit without one
RankNodeTypes ==
    {"n8n-nodes-base.slack", "n8n-nodes-base.httpRequest", "n8n-nodes-base.emailSend",
     "n8n-nodes-base.set", "custom.slackHttpRequest", "custom.smtpEmailSend", ""}

RankDocuments == {"Sends a message", "Reads Reddit posts"}

\* str.lower() of the strings of the hits, computed once
lower == [text \in RankNodeTypes \cup RankDocuments |-> Lower(text)]

\* lines 264-277: bonus of one mentioned service, in tenths
MatchBonus(service, node_type) ==
    IF ~Contains(service, node_type) THEN 0
    ELSE IF service \in {"gmail", "reddit", "whatsapp", "openai"} THEN 5
    ELSE IF service = "smtp" /\ Contains("emailsend", node_type) THEN 2
    ELSE 3

\* lines 279-284: generic nodes are penalised, in tenths
GenericPenalty(service_mentions, node_type) ==
    IF service_mentions = <<>> THEN 0
    ELSE IF "reddit" \in Range(service_mentions) /\ Contains("httprequest", node_type)
    THEN 3
    ELSE IF "gmail" \in Range(service_mentions) /\ Contains("emailsend", node_type)
    THEN 3
    ELSE 0

\* lines 286-291: one tenth for every mentioned service the document names
RECURSIVE ContentBonus(_, _, _)
ContentBonus(service_mentions, i, document) ==
    IF i > Len(service_mentions) \/ document = "" THEN 0
    ELSE (IF Contains(service_mentions[i], lower[document]) THEN 1 ELSE 0)
         + ContentBonus(service_mentions, i + 1, document)

RECURSIVE MatchBonuses(_, _, _)
MatchBonuses(service_mentions, i, node_type) ==
    IF i > Len(service_mentions) THEN 0
    ELSE MatchBonus(service_mentions[i], node_type)
         + MatchBonuses(service_mentions, i + 1, node_type)

\* lines 259-291: service_bonus of one hit, in tenths
ServiceBonus(hit, service_mentions) ==
    IF hit.metadata.node_type = "" THEN 0
    ELSE LET node_type == lower[hit.metadata.node_type]
         IN  MatchBonuses(service_mentions, 1, node_type)
               - GenericPenalty(service_mentions, node_type)
               + ContentBonus(service_mentions, 1, hit.document)

\* lines 256, 293: 1 / (1 + distance) + service_bonus
FinalScore(distance, service_bonus) ==
    <<100 + service_bonus * (10 + distance), 10 * (10 + distance)>>

\* lines 251-301
RECURSIVE ScoredFrom(_, _, _)
ScoredFrom(hits, i, service_mentions) ==
    IF i > Len(hits) THEN <<>>
    ELSE LET service_bonus == ServiceBonus(hits[i], service_mentions)
         IN  <<[document |-> hits[i].document,
                metadata |-> hits[i].metadata,
                distance |-> hits[i].distance,
                score |-> FinalScore(hits[i].distance, service_bonus),
                service_bonus |-> service_bonus]>>
             \o ScoredFrom(hits, i + 1, service_mentions)

\* line 304: sort(key=score, reverse=True) is stable
RECURSIVE SortedByFinalScore(_, _, _)
SortedByFinalScore(scored_results, i, sorted) ==
    IF i > Len(scored_results) THEN sorted
    ELSE LET n == Cardinality({j \in 1..Len(sorted) :
                        ~Less(sorted[j].score, scored_results[i].score)})
         IN  SortedByFinalScore(scored_results, i + 1,
                 SubSeq(sorted, 1, n) \o <<scored_results[i]>>
                     \o SubSeq(sorted, n + 1, Len(sorted)))

\* lines 238-305; an empty answer takes the early return of lines 245-246
_rank_results_by_service_relevance(hits, service_mentions) ==
    SortedByFinalScore(ScoredFrom(hits, 1, service_mentions), 1, <<>>)

MaxHits == 2

\* queries as get_relevant_context passes them on (line 97: query.lower())
RankQueries ==
    {"send slack alerts for reddit posts", "forward gmail to the smtp mail server",
     "read my gmail", "sort the items"}

RankHits ==
    [document : RankDocuments, metadata : [node_type : RankNodeTypes],
     distance : {0, 5}]

HitLists == UNION {[1..n -> RankHits] : n \in 0..MaxHits}

NotRanked == [called |-> FALSE]

RkInit == ranked = NotRanked

\* lines 97-111 of get_relevant_context: the answer of the store is ranked
\* (calls do not depend on one another: one call is followed from Init)
RankResults(q, hits) ==
    /\ LET service_mentions == _detect_service_mentions(q)
       IN  ranked' = [called |-> TRUE, query |-> q,
                      service_mentions |-> service_mentions,
                      results |-> hits,
                      scored |-> _rank_results_by_service_relevance(
                                     hits, service_mentions)]
    /\ UNCHANGED notRk

RankNext ==
    /\ ~ranked.called
    /\ \E q \in RankQueries : \E hits \in HitLists : RankResults(q, hits)

(***************************************************************************)
(* IntelligentChunker (chunking_utils.py), the catalog's chunks            *)
(* (1_1_n8n_data_extractor.py), uploads (backend/services/rag_service.py)  *)
(* and the indexer (2_vector_indexer.py).  The texts hold none of the      *)
(* chunker's separators, so RecursiveCharacterTextSplitter splits them     *)
(* character by character.                                                 *)
(***************************************************************************)
MaxText == 4

RECURSIVE TextsOfLen(_)
TextsOfLen(n) ==
    IF n = 0 THEN {""}
    ELSE {t \o c : t \in TextsOfLen(n - 1), c \in {"a", "b"}}

Texts == UNION {TextsOfLen(n) : n \in 0..MaxText}

\* IntelligentChunker(chunk_size, chunk_overlap), lines 15-49
Chunkers ==
    {[chunk_size |-> 2, chunk_overlap |-> 0], [chunk_size |-> 3, chunk_overlap |-> 1],
     [chunk_size |-> 4, chunk_overlap |-> 0], [chunk_size |-> 800, chunk_overlap |-> 100]}

\* line 56, self.text_splitter.split_text(text) on a text without separators:
\* pieces of chunk_size characters, each starting chunk_overlap before the end
\* of the one before
RECURSIVE Windows(_, _, _)
Windows(text, start, chunker) ==
    LET end == Min(start + chunker.chunk_size - 1, Len(text))
    IN  <<SubSeq(text, start, end)>>
        \o (IF end >= Len(text) THEN <<>>
            ELSE Windows(text, start + chunker.chunk_size - chunker.chunk_overlap,
                         chunker))

\* the text as one chunk, whatever it is
ListOfText(text, chunker) == <<text>>

\* lines 51-56
split_text(text, chunker) ==
    IF text = "" \/ Len(text) <= chunker.chunk_size
    THEN IF text # "" THEN <<text>> ELSE <<>>
    ELSE Windows(text, 1, chunker)

\* lines 98-112
RECURSIVE ChunkObjects(_, _, _, _)
ChunkObjects(text_chunks, i, chunk_type, base_id) ==
    IF i > Len(text_chunks) THEN <<>>
    ELSE <<[chunk_id |-> base_id \o "_chunk_" \o ToString(i - 1),
            chunk_type |-> chunk_type,
            content |-> text_chunks[i]]>>
         \o ChunkObjects(text_chunks, i + 1, chunk_type, base_id)

\* lines 86-114
create_overlapping_chunks(content, chunk_type, base_id, chunker) ==
    ChunkObjects(split_text(content, chunker), 1, chunk_type, base_id)

\* hashlib.md5(text.encode()).hexdigest()[:12] of the texts hashed below
md5 ==
    [text \in {"workflow_workflow_1_Slack alert", "workflow_workflow_1_Daily report"} |->
        IF text = "workflow_workflow_1_Slack alert" THEN "e3932083448f"
        ELSE "a7836f288845"]

\* 1_1_n8n_data_extractor.py lines 67-72
generate_chunk_id(content, prefix) ==
    prefix \o "_" \o md5[prefix \o "_" \o content]

\* the extractor's chunker (constructor arguments chunk_size, chunk_overlap)
ExtractorChunker == [chunk_size |-> 3, chunk_overlap |-> 1]

\* 1_1_n8n_data_extractor.py lines 3178-3215: the chunks of one template;
\* template.content stands for the rendered template_content
TemplateChunks(template) ==
    LET unique_id == "workflow_" \o template.id \o "_" \o template.name
    IN  IF Len(template.content) > ExtractorChunker.chunk_size
        THEN create_overlapping_chunks(template.content, "workflow_pattern",
                 generate_chunk_id(unique_id, "workflow"), ExtractorChunker)
        ELSE <<[chunk_id |-> generate_chunk_id(unique_id, "workflow"),
                chunk_type |-> "workflow_pattern",
                content |-> template.content]>>

\* rag_service.py lines 1662-1684
_create_text_chunks(content, file_id) ==
    create_overlapping_chunks(content, "text_content", file_id \o "_text",
                              [chunk_size |-> 800, chunk_overlap |-> 100])

\* 2_vector_indexer.py lines 140-150
type_to_collection ==
    [chunk_type \in {"node_overview", "node_properties", "node_documentation",
                     "node_examples", "ai_tool_usage", "workflow_template",
                     "workflow_pattern", "task_configuration", "connection_pattern"} |->
        CASE chunk_type \in {"workflow_template", "workflow_pattern"} -> "n8n_templates"
          [] chunk_type = "task_configuration" -> "n8n_tasks"
          [] chunk_type = "connection_pattern" -> "n8n_connections"
          [] OTHER -> "n8n_nodes"]

\* 2_vector_indexer.py lines 117-231: chunks of a type the indexer knows go to
\* their collection (an id already there stays one entry, whether add ignores
\* it or raises and upsert replaces it); the others are dropped (lines 134-137)
index_chunks(chunks, stored) ==
    [name \in DOMAIN stored |->
        stored[name] \cup
            {chunks[i].chunk_id : i \in {j \in 1..Len(chunks) :
                /\ chunks[j].chunk_type \in DOMAIN type_to_collection
                /\ type_to_collection[chunks[j].chunk_type] = name}}]

IdsOf(chunks) == [i \in 1..Len(chunks) |-> chunks[i].chunk_id]

StoredIds(stored) == UNION {stored[name] : name \in DOMAIN stored}

MaxIngestions == 2

\* 2 ** 10 characters
RECURSIVE Doubled(_, _)
Doubled(text, n) == IF n = 0 THEN text ELSE Doubled(text \o text, n - 1)

LongText == Doubled("a", 10)

\* contents of uploaded files
Contents == {"", "ab", "abba", LongText}

\* self.extracted_templates
Templates ==
    [id : {"1"}, name : {"Slack alert", "Daily report"}, content : {"ab", "abba", "abbab"}]

\* values uuid.uuid4() can return
UUIDs == {"1b4e28ba-2fa1-4d3b-a3f5-ef19b5a7633b", "6fa459ea-ee8a-4ca4-894e-db77e160355e"}

FileTypes == {"text/plain", "application/pdf", "image/png"}

NotSplit == [called |-> FALSE]

CkInit ==
    /\ chunked = NotSplit
    /\ index = [name \in Range(collection_names) |-> {}]
    /\ document_metadata = <<>>
    /\ ingestions = <<>>

\* IntelligentChunker.split_text
SplitText(text, chunker) ==
    /\ chunked' = [called |-> TRUE, text |-> text, chunker |-> chunker,
                   out |-> split_text(text, chunker)]
    /\ UNCHANGED <<index, document_metadata, ingestions>>
    /\ UNCHANGED notCk

SplitNext == \E text \in Texts : \E chunker \in Chunkers : SplitText(text, chunker)

\* create_embedding_chunks for one template, then N8nVectorIndexer.index_chunks
IngestTemplate(template) ==
    /\ Len(ingestions) < MaxIngestions
    /\ LET chunks == TemplateChunks(template)
       IN  /\ index' = index_chunks(chunks, index)
           /\ ingestions' = Append(ingestions,
                  [path |-> "catalog", input |-> template, ids |-> IdsOf(chunks),
                   added |-> StoredIds(index_chunks(chunks, index)) \ StoredIds(index)])
    /\ UNCHANGED <<chunked, document_metadata>>
    /\ UNCHANGED notCk

\* RAGService.process_document, lines 1498-1562, as the values it leaves behind;
\* file_id and error_id are the values of its two uuid.uuid4() calls
process_document(content, file_type, file_id, error_id) ==
    LET chunks == IF file_type \in {"text/plain", "text/markdown"}
                  THEN _create_text_chunks(content, file_id)
                  ELSE <<>>
        status == IF file_type \in {"text/plain", "text/markdown"}
                  THEN "success" ELSE "error"
        key == IF file_type \in {"text/plain", "text/markdown", "application/pdf"}
               THEN file_id ELSE error_id
    IN  [status |-> status,
         key |-> key,
         chunks_created |-> Len(chunks),
         index |-> index_chunks(chunks, index),
         document_metadata |->
             [k \in DOMAIN document_metadata \cup {key} |->
                 IF k = key
                 THEN [processing_status |-> status, chunks_created |-> Len(chunks)]
                 ELSE document_metadata[k]],
         ingestion |->
             [path |-> "upload", input |-> <<content, file_type>>,
              status |-> status, ids |-> IdsOf(chunks),
              added |-> StoredIds(index_chunks(chunks, index)) \ StoredIds(index)]]

ProcessDocument(content, file_type, file_id, error_id) ==
    /\ Len(ingestions) < MaxIngestions
    /\ LET result == process_document(content, file_type, file_id, error_id)
       IN  /\ index' = result.index
           /\ document_metadata' = result.document_metadata
           /\ ingestions' = Append(ingestions, result.ingestion)
    /\ UNCHANGED chunked
    /\ UNCHANGED notCk

IngestNext ==
    \/ \E template \in Templates : IngestTemplate(template)
    \/ \E content \in Contents : \E file_type \in FileTypes :
          \E file_id, error_id \in UUIDs :
              ProcessDocument(content, file_type, file_id, error_id)

(***************************************************************************)
(* The document endpoints of backend/app.py                                *)
(***************************************************************************)
MaxRequests == 3

allowed_types ==
    {"application/json", "text/plain", "text/markdown", "application/pdf",
     "application/vnd.openxmlformats-officedocument.wordprocessingml.document"}

UploadTypes ==
    {"text/plain", "application/pdf", "image/png",
     "application/vnd.openxmlformats-officedocument.wordprocessingml.document"}

ApiInit == responses = <<>>

\* upload_file, lines 92-136: upload_id is the value of its uuid.uuid4() call,
\* file_id and error_id those of the calls inside process_document
UploadFile(content, content_type, upload_id, file_id, error_id) ==
    /\ Len(responses) < MaxRequests
    /\ IF content_type \notin allowed_types
       THEN /\ responses' = Append(responses, [op |-> "upload", code |-> 500])
            /\ UNCHANGED <<index, document_metadata, ingestions>>
       ELSE LET result == process_document(content, content_type, file_id, error_id)
            IN  /\ index' = result.index
                /\ document_metadata' = result.document_metadata
                /\ ingestions' = Append(ingestions, result.ingestion)
                /\ responses' = Append(responses,
                       [op |-> "upload", code |-> 200, file_id |-> upload_id,
                        processing_status |-> result.status,
                        chunks_created |-> result.chunks_created,
                        stored_as |-> result.key])
    /\ UNCHANGED chunked
    /\ UNCHANGED notCkApi

\* the delete endpoint, lines 158-165, over RAGService.delete_document, lines
\* 1793-1821; N8nVectorIndexer has no remove_document_chunks
DeleteDocument(file_id) ==
    /\ Len(responses) < MaxRequests
    /\ IF file_id \notin DOMAIN document_metadata
       THEN /\ responses' = Append(responses,
                   [op |-> "delete", code |-> 200, file_id |-> file_id,
                    success |-> FALSE])
            /\ UNCHANGED document_metadata
       ELSE /\ document_metadata' =
                   [k \in DOMAIN document_metadata \ {file_id} |-> document_metadata[k]]
            /\ responses' = Append(responses,
                   [op |-> "delete", code |-> 200, file_id |-> file_id,
                    success |-> TRUE])
    /\ UNCHANGED <<chunked, index, ingestions>>
    /\ UNCHANGED notCkApi

UploadNext ==
    \/ \E content \in Contents : \E content_type \in UploadTypes :
          \E upload_id, file_id, error_id \in UUIDs :
              UploadFile(content, content_type, upload_id, file_id, error_id)
    \/ \E file_id \in UUIDs : DeleteDocument(file_id)

(***************************************************************************)
(* websocket_endpoint (backend/app.py 217-247), ConnectionManager          *)
(* (websocket_manager.py) and RAGService.generate_workflow_stream          *)
(* (rag_service.py 1892-1940).  Every socket has one websocket_endpoint    *)
(* coroutine; the coroutines run on one event loop and interleave at       *)
(* their awaits: receive_text, each send, each step of the generator.      *)
(* Progress values are in tenths.                                          *)
(***************************************************************************)
Sockets == {"ws1", "ws2"}
ClientIds == {"alice", "bob"}
MaxMessages == 2

Terminal == {"complete", "error"}

Progress(tenths) == [type |-> "progress", progress |-> tenths]
Complete == [type |-> "complete", progress |-> 0]
Error == [type |-> "error", progress |-> 0]

Outcomes == {"ok", "failure", "raise"}

\* the generator with its return after the error event (line 1927) left out
generate_workflow_stream_without_return(stage, outcome) ==
    IF stage = "start" THEN [event |-> Progress(1), stage |-> "analyze"]
    ELSE IF stage \in {"analyze", "retrieve", "generate"} /\ outcome = "raise"
    THEN [event |-> Error, stage |-> "done"]
    ELSE IF stage = "analyze" THEN [event |-> Progress(3), stage |-> "retrieve"]
    ELSE IF stage = "retrieve" THEN [event |-> Progress(6), stage |-> "generate"]
    ELSE IF stage = "generate"
    THEN [event |-> Progress(9),
          stage |-> IF outcome = "failure" THEN "failed" ELSE "succeeded"]
    ELSE IF stage = "failed" THEN [event |-> Error, stage |-> "succeeded"]
    ELSE IF outcome = "raise" THEN [event |-> Error, stage |-> "done"]
    ELSE [event |-> Complete, stage |-> "done"]

\* generate_workflow_stream from one yield to the next: stage is the statement
\* the generator is suspended ahead of, outcome what that statement does
\* ("raise": it raises; "failure": generate_workflow returns a falsy or
\* unsuccessful result)
generate_workflow_stream(stage, outcome) ==
    IF stage = "start" THEN [event |-> Progress(1), stage |-> "analyze"]
    ELSE IF stage \in {"analyze", "retrieve", "generate"} /\ outcome = "raise"
    THEN [event |-> Error, stage |-> "done"]
    ELSE IF stage = "analyze" THEN [event |-> Progress(3), stage |-> "retrieve"]
    ELSE IF stage = "retrieve" THEN [event |-> Progress(6), stage |-> "generate"]
    ELSE IF stage = "generate"
    THEN [event |-> Progress(9),
          stage |-> IF outcome = "failure" THEN "failed" ELSE "succeeded"]
    ELSE IF stage = "failed" THEN [event |-> Error, stage |-> "done"]
    ELSE IF outcome = "raise" THEN [event |-> Error, stage |-> "done"]
    ELSE [event |-> Complete, stage |-> "done"]

Without(f, k) == [x \in DOMAIN f \ {k} |-> f[x]]
With(f, k, v) == [x \in DOMAIN f \cup {k} |-> IF x = k THEN v ELSE f[x]]

\* ConnectionManager.disconnect, lines 29-35, on the manager <<connections, metadata>>
disconnect(manager, client_id) ==
    IF client_id \in DOMAIN manager[1]
    THEN <<Without(manager[1], client_id), manager[2] \ {client_id}>>
    ELSE manager

\* what websocket.send_text can do: a socket the peer has closed raises, or
\* takes the message without delivering it
SendOutcomes(websocket) == IF open[websocket] THEN {"sent"} ELSE {"raised", "lost"}

\* ConnectionManager.send_personal_message, lines 37-51: the manager and the
\* deliveries after it
send_personal_message(manager, deliveries, message, client_id, sending) ==
    IF client_id \notin DOMAIN manager[1] THEN <<manager, deliveries>>
    ELSE IF sending = "raised" THEN <<disconnect(manager, client_id), deliveries>>
    ELSE <<manager,
           IF sending = "sent"
           THEN [deliveries EXCEPT ![manager[1][client_id]] = message]
           ELSE deliveries>>

\* the outcomes of the send_text inside send_personal_message
SendingTo(client_id) ==
    IF client_id \in DOMAIN active_connections
    THEN SendOutcomes(active_connections[client_id]) ELSE {"sent"}

\* the messages the handlers have taken off their sockets so far
Received == handlers["ws1"].received + handlers["ws2"].received

WsInit ==
    /\ active_connections = <<>>
    /\ connection_metadata = {}
    /\ handlers = [ws \in Sockets |->
                      [pc |-> "new", client_id |-> "", stage |-> "none", received |-> 0]]
    /\ open = [ws \in Sockets |-> TRUE]
    /\ streams = [ws \in Sockets |-> <<>>]
    /\ delivered = [ws \in Sockets |-> "none"]
    /\ connect_order = <<>>

\* app.py line 220, manager.connect, lines 18-27
Connect(ws, client_id) ==
    /\ handlers[ws].pc = "new"
    /\ active_connections' = With(active_connections, client_id, ws)
    /\ connection_metadata' = connection_metadata \cup {client_id}
    /\ handlers' = [handlers EXCEPT ![ws].pc = "receive", ![ws].client_id = client_id]
    /\ connect_order' = Append(connect_order, ws)
    /\ UNCHANGED <<open, streams, delivered>>
    /\ UNCHANGED notWs

\* the peer closes its socket
PeerClose(ws) ==
    /\ handlers[ws].pc \in {"receive", "stream"}
    /\ open[ws]
    /\ open' = [open EXCEPT ![ws] = FALSE]
    /\ UNCHANGED <<active_connections, connection_metadata, handlers, streams,
                   delivered, connect_order>>
    /\ UNCHANGED notWs

\* lines 223-229: a ping is answered on the socket itself
ReceivePing(ws) ==
    /\ handlers[ws].pc = "receive"
    /\ open[ws]
    /\ Received < MaxMessages
    /\ handlers' = [handlers EXCEPT ![ws].received = @ + 1]
    /\ delivered' = [delivered EXCEPT ![ws] = "pong"]
    /\ UNCHANGED <<active_connections, connection_metadata, open, streams, connect_order>>
    /\ UNCHANGED notWs

\* lines 223-232: a message that is neither a ping nor a chat with content
ReceiveOther(ws) ==
    /\ handlers[ws].pc = "receive"
    /\ open[ws]
    /\ Received < MaxMessages
    /\ handlers' = [handlers EXCEPT ![ws].received = @ + 1]
    /\ UNCHANGED <<active_connections, connection_metadata, open, streams, delivered,
                   connect_order>>
    /\ UNCHANGED notWs

\* lines 223-234: a chat message starts generate_workflow_stream
ReceiveChat(ws) ==
    /\ handlers[ws].pc = "receive"
    /\ open[ws]
    /\ Received < MaxMessages
    /\ handlers' = [handlers EXCEPT ![ws].received = @ + 1, ![ws].pc = "stream",
                                    ![ws].stage = "start"]
    /\ streams' = [streams EXCEPT ![ws] = <<>>]
    /\ UNCHANGED <<active_connections, connection_metadata, open, delivered, connect_order>>
    /\ UNCHANGED notWs

\* lines 234-238: the generator's next chunk, sent with manager.send_personal_message
StreamChunk(ws, outcome, sending) ==
    /\ handlers[ws].pc = "stream"
    /\ LET chunk == generate_workflow_stream(handlers[ws].stage, outcome)
           after == send_personal_message(<<active_connections, connection_metadata>>,
                                          delivered, chunk.event.type,
                                          handlers[ws].client_id, sending)
       IN  /\ streams' = [streams EXCEPT ![ws] = Append(@, chunk.event)]
           /\ handlers' = [handlers EXCEPT
                              ![ws].stage = chunk.stage,
                              ![ws].pc = IF chunk.stage = "done" THEN "receive" ELSE "stream"]
           /\ active_connections' = after[1][1]
           /\ connection_metadata' = after[1][2]
           /\ delivered' = after[2]
    /\ UNCHANGED <<open, connect_order>>
    /\ UNCHANGED notWs

\* lines 240-241: receive_text on a closed socket raises WebSocketDisconnect
ReceiveDisconnect(ws) ==
    /\ handlers[ws].pc = "receive"
    /\ ~open[ws]
    /\ LET after == disconnect(<<active_connections, connection_metadata>>,
                               handlers[ws].client_id)
       IN  /\ active_connections' = after[1]
           /\ connection_metadata' = after[2]
    /\ handlers' = [handlers EXCEPT ![ws].pc = "done"]
    /\ UNCHANGED <<open, streams, delivered, connect_order>>
    /\ UNCHANGED notWs

\* lines 242-247: a message json.loads cannot parse, or one that is no object
ReceiveInvalid(ws, sending) ==
    /\ handlers[ws].pc = "receive"
    /\ open[ws]
    /\ Received < MaxMessages
    /\ LET sent == send_personal_message(<<active_connections, connection_metadata>>,
                                         delivered, "error",
                                         handlers[ws].client_id, sending)
           after == disconnect(sent[1], handlers[ws].client_id)
       IN  /\ active_connections' = after[1]
           /\ connection_metadata' = after[2]
           /\ delivered' = sent[2]
    /\ handlers' = [handlers EXCEPT ![ws].received = @ + 1, ![ws].pc = "done"]
    /\ UNCHANGED <<open, streams, connect_order>>
    /\ UNCHANGED notWs

SocketNext ==
    \E ws \in Sockets :
        \/ \E client_id \in ClientIds : Connect(ws, client_id)
        \/ PeerClose(ws)
        \/ ReceivePing(ws)
        \/ ReceiveOther(ws)
        \/ ReceiveChat(ws)
        \/ \E outcome \in Outcomes : \E sending \in SendingTo(handlers[ws].client_id) :
              StreamChunk(ws, outcome, sending)
        \/ ReceiveDisconnect(ws)
        \/ \E sending \in SendingTo(handlers[ws].client_id) : ReceiveInvalid(ws, sending)


(***************************************************************************)
(* The template-based generator of RAGService (rag_service.py 605-882).    *)
(* A component is <<node_type, label>>; a node is kept by name and type,   *)
(* connections maps a source key to the "node" of its one "main" target.   *)
(***************************************************************************)
\* any(word in query_lower for word in words)
AnyWord(words, text) == \E word \in words : Contains(word, text)

\* lines 619-627
DetectedTriggers(query_lower) ==
    IF AnyWord({"webhook", "receive", "incoming", "post", "endpoint"}, query_lower)
    THEN <<<<"webhook", "Receive Webhook">>>>
    ELSE IF AnyWord({"schedule", "daily", "hourly", "every", "cron", "recurring",
                     "7am", "at ", "daily at"}, query_lower)
    THEN <<<<"scheduleTrigger", "Schedule Trigger">>>>
    ELSE IF AnyWord({"email", "mail", "receive email"}, query_lower)
    THEN <<<<"emailReadImap", "Email Trigger">>>>
    ELSE <<<<"webhook", "Webhook Trigger">>>>

\* lines 629-637
DetectedProcessors(query_lower) ==
    (IF AnyWord({"api", "http", "fetch", "get", "call", "newsapi", "news api"}, query_lower)
     THEN <<<<"httpRequest", "API Request">>>> ELSE <<>>)
    \o (IF AnyWord({"transform", "process", "convert", "modify", "calculate"}, query_lower)
        THEN <<<<"code", "Process Data">>>> ELSE <<>>)
    \o (IF AnyWord({"ai", "gpt", "openai", "chatgpt", "analyze"}, query_lower)
        THEN <<<<"openAi", "AI Processing">>>> ELSE <<>>)
    \o (IF AnyWord({"filter", "condition", "if", "when"}, query_lower)
        THEN <<<<"if", "Condition Check">>>> ELSE <<>>)

\* lines 639-653
DetectedOutputs(query_lower) ==
    IF AnyWord({"slack", "slack message"}, query_lower)
    THEN <<<<"slack", "Send to Slack">>>>
    ELSE IF AnyWord({"email", "send email", "notify email"}, query_lower)
    THEN <<<<"emailSend", "Send Email">>>>
    ELSE IF AnyWord({"telegram"}, query_lower)
    THEN <<<<"telegram", "Send Telegram">>>>
    ELSE IF AnyWord({"database", "db", "store", "save"}, query_lower)
    THEN <<<<"postgres", "Save to Database">>>>
    ELSE IF AnyWord({"telegram"}, query_lower)
    THEN <<<<"telegram", "Send Telegram">>>>
    ELSE <<<<"slack", "Send to Slack">>>>

\* the "name" of the node built for a trigger (lines 677-720)
TriggerName(label) == label

\* the "name" of the node built for a processor (lines 725-798)
ProcessorName(user_query, node_type, label) ==
    IF /\ node_type = "httpRequest"
       /\ \/ Contains("newsapi", Lower(user_query))
          \/ Contains("news", Lower(user_query))
    THEN "Fetch AI News"
    ELSE label

\* the "name" of the node built for an output (lines 802-863)
OutputName(node_type, label) ==
    IF node_type = "telegram" THEN "Send Telegram Message"
    ELSE IF node_type = "slack" THEN "Send Slack Message"
    ELSE IF node_type = "emailSend" THEN "Send Email"
    ELSE label

\* lines 661-882
_create_custom_workflow(user_query, triggers, processors, outputs) ==
    LET components == triggers \o processors \o outputs
        nT == Len(triggers)
        nP == Len(processors)
        n == Len(components)
        label(i) == components[i][2]
        node(i) ==
            [name |-> IF i <= nT THEN TriggerName(label(i))
                      ELSE IF i <= nT + nP
                      THEN ProcessorName(user_query, components[i][1], label(i))
                      ELSE OutputName(components[i][1], label(i)),
             type |-> "n8n-nodes-base." \o components[i][1]]
        \* the components that find a prev_node_name: processors and outputs
        \* with a component ahead of them
        connected == {i \in (nT + 1)..n : i >= 2}
        sources == {label(i - 1) : i \in connected}
        \* a later assignment to connections[prev_node_name]["main"] replaces
        \* an earlier one
        last(source) == CHOOSE i \in connected :
                            /\ label(i - 1) = source
                            /\ \A j \in connected : label(j - 1) = source => j <= i
    IN  [nodes |-> [i \in 1..n |-> node(i)],
         connections |-> [source \in sources |-> label(last(source))]]

\* lines 605-659
_generate_workflow_for_query(user_query) ==
    LET query_lower == Lower(user_query)
    IN  _create_custom_workflow(user_query,
                                DetectedTriggers(query_lower),
                                DetectedProcessors(query_lower),
                                DetectedOutputs(query_lower))

TriggerPhrases == {"", "On a webhook ", "every hour ", "on new mail "}
OutputPhrases == {"", "to Slack", "by email", "to telegram", "and save"}

\* the queries: a trigger phrase, any of the processor phrases, an output phrase
WorkflowQueries ==
    {t \o p1 \o p2 \o p3 \o p4 \o p5 \o o :
        t \in TriggerPhrases, p1 \in {"", "fetch "}, p2 \in {"", "the news "},
        p3 \in {"", "convert "}, p4 \in {"", "ask gpt "}, p5 \in {"", "filter "},
        o \in OutputPhrases}

NotBuilt == [called |-> FALSE]

GenInit == built = NotBuilt

GenerateWorkflowForQuery(user_query) ==
    /\ built' = [called |-> TRUE, query |-> user_query,
                 triggers |-> DetectedTriggers(Lower(user_query)),
                 processors |-> DetectedProcessors(Lower(user_query)),
                 outputs |-> DetectedOutputs(Lower(user_query)),
                 workflow |-> _generate_workflow_for_query(user_query)]
    /\ UNCHANGED notGen

BuildNext ==
    /\ ~built.called
    /\ \E user_query \in WorkflowQueries : GenerateWorkflowForQuery(user_query)


Init == FbInit /\ QInit /\ CxInit /\ RtInit /\ RkInit /\ CkInit /\ ApiInit /\ WsInit /\ GenInit

Next == FbNext

Spec == Init /\ [][Next]_vars

SpecQuery == Init /\ [][QNext]_vars

SpecComplexity == Init /\ [][CxNext]_vars

SpecStage == Init /\ [][StageNext]_vars

SpecRetrieve == Init /\ [][RetrieveNext]_vars

SpecRank == Init /\ [][RankNext]_vars

SpecSplit == Init /\ [][SplitNext]_vars

SpecIngest == Init /\ [][IngestNext]_vars

SpecUpload == Init /\ [][UploadNext]_vars

SpecSocket == Init /\ [][SocketNext]_vars

SpecBuild == Init /\ [][BuildNext]_vars

(***************************************************************************)
(* Claims about FeedbackLoop (checked under Spec)                          *)
(***************************************************************************)
Quiescent == \A t \in Threads : pc[t] = "idle"

RowCounts(table, k) ==
    IF k \in DOMAIN table
    THEN [total |-> table[k].total_uses, successes |-> table[k].successful_uses]
    ELSE [total |-> 0, successes |-> 0]

NodeReads == {t \in Threads : ret[t].kind = "weights" /\ ret[t].op = "get_node_weights"}
PatternReads == {t \in Threads : ret[t].kind = "weights" /\ ret[t].op = "get_pattern_weights"}

\* C1: every record_generation call, whatever success and workflow, durably adds
\* exactly one generation_history row and raises total_uses by one for each block of
\* required_nodes and each pattern of workflow_patterns: once no call is running,
\* the history holds one row per finished call and every row's total_uses is the
\* number of finished calls that named it.
RecordAddsRows ==
    Quiescent =>
        /\ Len(generation_history) = finishedRecords
        /\ \A k \in NodeTypes : RowCounts(node_effectiveness, k).total = recorded[k].total
        /\ \A k \in PatternIds : RowCounts(pattern_success, k).total = recorded[k].total

\* C2: get_node_weights()[X] is (recorded successes naming X) / (records naming X),
\* for a read made when no record call is running; so it is 1.0 after successes
\* only and strictly smaller after one further failure.
WeightIsSuccessRatio ==
    \A t \in NodeReads : ret[t].after.quiet =>
        \A X \in NodeTypes : ret[t].after.recorded[X].total > 0 =>
            /\ X \in DOMAIN ret[t].value
            /\ ret[t].value[X] = Quotient(ret[t].after.recorded[X].successes,
                                          ret[t].after.recorded[X].total)

\* C3: a weight read that starts after a record_generation call has returned
\* reflects that record, through whichever instance it is made: the blocks
\* (patterns) the record named have a weight in the result.
WeightsReflectReturnedRecords ==
    /\ \A t \in NodeReads : (ret[t].after.returned \cap NodeTypes) \subseteq DOMAIN ret[t].value
    /\ \A t \in PatternReads : (ret[t].after.returned \cap PatternIds) \subseteq DOMAIN ret[t].value

\* C4: when two record_generation calls naming the same block (pattern) ran
\* concurrently, no update is lost: after both have ended the row's total_uses and
\* successful_uses count every call that named it.
NoLostUpdate ==
    Quiescent =>
        /\ \A k \in overlapped \cap NodeTypes : RowCounts(node_effectiveness, k) = recorded[k]
        /\ \A k \in overlapped \cap PatternIds : RowCounts(pattern_success, k) = recorded[k]

(***************************************************************************)
(* Claims about analyze_query (checked under SpecQuery)                    *)
(***************************************************************************)
Analysed == analysis # NoAnalysis

\* for each category of IntentOrder, how many of its keywords occur in text
RECURSIVE OccurringFrom(_, _)
OccurringFrom(i, text) ==
    IF i > Len(IntentOrder) THEN <<>>
    ELSE <<Len(Scan(intent_keywords[IntentOrder[i]], text))>> \o OccurringFrom(i + 1, text)

IndexOf(nodes, node) == CHOOSE i \in 1..Len(nodes) : nodes[i] = node /\ \A j \in 1..(i - 1) : nodes[j] # node

\* an entry block: the webhook node or a *Trigger node
IsEntryBlock(node) == node = WEBHOOK \/ Contains("Trigger", node)

SlackScenario == "send a slack message when a webhook is received"
ScheduleScenario == "every day at 7am fetch data from an api and store in postgres"

\* C5: for every query, the empty one included, analyze_query returns a QueryAnalysis
\* whose intent is the first category, in intent_keywords order, whose number of
\* keywords occurring in the lowercased, trimmed query is maximal and positive; the
\* intent is MULTI_STEP_WORKFLOW exactly when no keyword of any category occurs.
IntentIsFirstArgmax ==
    Analysed =>
        LET text == Strip(Lower(query))
            all == 1..Len(IntentOrder)
            count == OccurringFrom(1, text)
        IN  /\ analysis.original_query = query
            /\ analysis.cleaned_query = text
            /\ analysis.intent \in WorkflowIntent
            /\ analysis.intent = MULTI_STEP_WORKFLOW <=> \A i \in all : count[i] = 0
            /\ analysis.intent # MULTI_STEP_WORKFLOW =>
                  \E i \in all :
                      /\ analysis.intent = IntentOrder[i]
                      /\ count[i] > 0
                      /\ \A j \in all : count[j] <= count[i]
                      /\ \A j \in 1..(i - 1) : count[j] < count[i]

\* C5 witness: an analysed query in which two categories tie for the highest
\* positive count, the earlier of them being the intent
TiedIntentAnalysed ==
    /\ Analysed
    /\ LET count == OccurringFrom(1, analysis.cleaned_query)
       IN  \E i, j \in 1..Len(IntentOrder) :
              /\ i < j
              /\ analysis.intent = IntentOrder[i]
              /\ count[i] = count[j]

ScheduleScenarioIntent ==
    (Analysed /\ analysis.cleaned_query = ScheduleScenario) =>
        /\ analysis.intent = "scheduling"
        /\ analysis.entities.triggers # <<>>

\* C8: for the same query required_nodes begins with the schedule-trigger block and
\* contains the httpRequest block and the postgres block, and the complexity is
\* moderate or complex.
ScheduleScenarioBlocks ==
    (Analysed /\ analysis.cleaned_query = ScheduleScenario) =>
        /\ analysis.required_nodes # <<>>
        /\ analysis.required_nodes[1] = SCHEDULE_TRIGGER
        /\ HTTP_REQUEST \in Range(analysis.required_nodes)
        /\ POSTGRES \in Range(analysis.required_nodes)
        /\ analysis.workflow_complexity \in {"moderate", "complex"}

\* C10: for every query, required_nodes contains no block identifier twice.
NoDuplicateBlocks ==
    Analysed =>
        \A i, j \in 1..Len(analysis.required_nodes) :
            i # j => analysis.required_nodes[i] # analysis.required_nodes[j]

(***************************************************************************)
(* Claims about _assess_complexity (checked under SpecComplexity)          *)
(***************************************************************************)
\* C9: for every number n of required blocks and every conditions flag the rating
\* is SIMPLE if n <= 2 and there are no conditions; COMPLEX if n > 4, or n > 3 and
\* conditions are present; MODERATE otherwise.
ComplexityRating ==
    cxResult # "none" =>
        LET n == Len(cxNodes)
            conditions == cxConditions # <<>>
        IN  cxResult = IF n <= 2 /\ ~conditions THEN "simple"
                       ELSE IF n > 4 \/ (n > 3 /\ conditions) THEN "complex"
                       ELSE "moderate"

(***************************************************************************)
(* Claims about _multi_stage_retrieval (checked under SpecStage)           *)
(***************************************************************************)
Retrieved == rtCall.op # "none" /\ ~results.raised

\* the formatted hits of a key in the order in which the store gave them
RawResults(key) ==
    IF key = "nodes"
    THEN NodeResults(answers, 1, Min(2, rtCall.nQueries), rtCall.k_per_stage)
    ELSE IF key = "templates"
    THEN _format_results(QueryCollection(answers, <<"n8n_templates", 1>>, Min(rtCall.k_per_stage, 3)))
    ELSE IF key = "tasks"
    THEN _format_results(QueryCollection(answers, <<"n8n_tasks", 1>>, Min(rtCall.k_per_stage, 3)))
    ELSE _format_results(QueryCollection(answers, <<"n8n_connections", 1>>, Min(rtCall.k_per_stage, 2)))

FirstObtained(raw, r) ==
    CHOOSE i \in 1..Len(raw) : raw[i] = r /\ \A j \in 1..(i - 1) : raw[j] # r

\* C14: with a store that answers in non-decreasing distance, every list of
\* the returned map is in non-increasing relevance_score order, and results
\* of equal score keep the order in which they were first obtained.
ResultsOrdered ==
    Retrieved =>
        \A key \in DOMAIN results.chunks :
            LET list == results.chunks[key]
                raw == RawResults(key)
            IN  \A i, j \in 1..Len(list) :
                    i < j =>
                        /\ AtMost(list[j].relevance_score, list[i].relevance_score)
                        /\ list[i].relevance_score = list[j].relevance_score
                            => FirstObtained(raw, list[i]) < FirstObtained(raw, list[j])

\* C14 witness: two node results of equal score, the later one obtained
\* from the second query variant only, behind a result that scores higher
TiedAcrossVariants ==
    /\ Retrieved
    /\ rtCall.nQueries = 2
    /\ LET nodes == results.chunks.nodes
           first == _format_results(QueryCollection(answers, <<"n8n_nodes", 1>>, rtCall.k_per_stage))
       IN  /\ Len(nodes) = 2
           /\ nodes[1].relevance_score = nodes[2].relevance_score
           /\ nodes[1] \in Range(first)
           /\ nodes[2] \notin Range(first)
    /\ Len(results.chunks.templates) = 2
    /\ Less(results.chunks.templates[2].relevance_score,
            results.chunks.templates[1].relevance_score)

\* C15: the nodes list has no two entries with the same first 100
\* characters of content, every entry scores highest among the raw hits
\* sharing its first 100 characters, and the list has at most k_per_stage
\* entries.
NodesDeduplicated ==
    Retrieved =>
        LET nodes == results.chunks.nodes
            raw == RawResults("nodes")
        IN  /\ \A i, j \in 1..Len(nodes) :
                  i # j => Head_(nodes[i].content, PrefixLen) # Head_(nodes[j].content, PrefixLen)
            /\ \A i \in 1..Len(nodes) : \A j \in 1..Len(raw) :
                  Head_(raw[j].content, PrefixLen) = Head_(nodes[i].content, PrefixLen)
                      => AtMost(raw[j].relevance_score, nodes[i].relevance_score)
            /\ Len(nodes) <= rtCall.k_per_stage

\* C15 witness: two raw hits share their first 100 characters and differ in
\* score, a third one has another prefix, and the list is cut at k_per_stage
DuplicateDropped ==
    /\ Retrieved
    /\ LET nodes == results.chunks.nodes
           raw == RawResults("nodes")
       IN  /\ \E i, j \in 1..Len(raw) :
                  /\ Head_(raw[i].content, PrefixLen) = Head_(raw[j].content, PrefixLen)
                  /\ raw[i].content # raw[j].content
                  /\ Less(raw[i].relevance_score, raw[j].relevance_score)
           /\ Cardinality({Head_(raw[i].content, PrefixLen) : i \in 1..Len(raw)}) = 2
           /\ Len(nodes) = 2
           /\ Len(nodes) = rtCall.k_per_stage
           /\ Len(raw) > 2

(***************************************************************************)
(* Claims about the retrieval pipeline (checked under SpecRetrieve)        *)
(***************************************************************************)
PipelineOps == {"retrieve_for_generation", "retrieve_context", "retrieve_with_learning"}

KeyOf ==
    [n8n_nodes |-> "nodes", n8n_templates |-> "templates", n8n_tasks |-> "tasks",
     n8n_connections |-> "connections"]

\* C11: a collection that the store lacks when the retriever is built gets
\* an empty list under its key and nothing is raised, and every other
\* collection gets the list it gets when no collection is missing.
MissingCollectionSkipped ==
    (rtCall.op \in PipelineOps /\ rtCall.fault = "none") =>
        /\ ~results.raised
        /\ ~context.raised
        /\ LET complete == _multi_stage_retrieval(rtCall.nQueries, rtCall.k_per_stage,
                               Range(collection_names), answers, rtCall.hash)
           IN  \A name \in Range(collection_names) :
                   results.chunks[KeyOf[name]] =
                       IF name \in collections THEN complete[KeyOf[name]] ELSE <<>>

\* C11 witness: a retrieval without the templates collection, on a store
\* that ranks templates, returned the node and task hits
RetrievedWithoutTemplates ==
    /\ rtCall.op \in PipelineOps
    /\ rtCall.fault = "none"
    /\ collections = Range(collection_names) \ {"n8n_templates"}
    /\ answers[<<"n8n_templates", 1>>] # <<>>
    /\ results.chunks.templates = <<>>
    /\ Len(results.chunks.nodes) >= 2
    /\ results.chunks.tasks # <<>>
    /\ ~context.raised

\* C12: when the embedding call or the query of one collection raises, the
\* caller gets no exception but the context assembled from the collections
\* whose queries succeeded, only the failing collection's list being empty.
FaultIsolated ==
    (rtCall.op \in PipelineOps /\ Raises(collections, rtCall.fault)) =>
        LET succeeded == IF rtCall.fault = "encode" THEN {}
                         ELSE collections \ {rtCall.fault}
            expected == retrieve_for_generation(RtAnalyses[rtCall.query],
                            rtCall.k_per_stage, succeeded, answers, "none", rtCall.hash)
        IN  /\ ~context.raised
            /\ \A key \in {"node_documentation", "workflow_patterns", "examples", "prompt"} :
                   context.value[key] = expected.value[key]

\* C16: node_documentation has an entry for a required block exactly when
\* some nodes hit has that block as metadata node_type, and the entry is
\* built from the first such hit.
DocumentationIffMatchingHit ==
    (rtCall.op = "retrieve_for_generation" /\ ~context.raised) =>
        LET nodes == results.chunks.nodes
            docs == context.value.node_documentation
        IN  \A b \in Range(context.value.required_nodes) :
                LET matching == {i \in 1..Len(nodes) :
                                    Get(nodes[i].metadata, "node_type", "None") = b}
                    entries == {j \in 1..Len(docs) : docs[j].node_type = b}
                IN  /\ (entries # {}) <=> (matching # {})
                    /\ matching # {} =>
                          LET hit == nodes[CHOOSE i \in matching : \A j \in matching : i <= j]
                          IN  \A j \in entries :
                                  /\ docs[j].properties = hit.metadata
                                  /\ docs[j].description = Head_(hit.content, 500)

NoEffectivenessRow ==
    /\ node_effectiveness = EmptyMap
    /\ pattern_success = EmptyMap
    /\ \A i \in Instances :
          node_success_rates[i] = EmptyMap /\ pattern_effectiveness[i] = EmptyMap

(***************************************************************************)
(* Claims about the service-aware ranking (checked under SpecRank)         *)
(***************************************************************************)
\* the hit's node_type contains a detected service
MatchesService(hit) ==
    \E i \in 1..Len(ranked.service_mentions) :
        Contains(ranked.service_mentions[i], lower[hit.metadata.node_type])

Penalised(hit) ==
    GenericPenalty(ranked.service_mentions, lower[hit.metadata.node_type]) > 0

MatchAboveUnlessPenalised ==
    ranked.called =>
        \A p, q \in 1..Len(ranked.scored) :
            LET above == ranked.scored[p]
                below == ranked.scored[q]
            IN  (/\ p < q
                 /\ above.distance = below.distance
                 /\ above.document = below.document
                 /\ above.metadata.node_type # ""
                 /\ below.metadata.node_type # ""
                 /\ ~MatchesService(above)
                 /\ ~Penalised(below))
                => ~MatchesService(below)

(***************************************************************************)
(* Claims about chunking and ingestion (checked under SpecSplit and        *)
(* SpecIngest)                                                             *)
(***************************************************************************)
\* C18: split_text of a non-empty text no longer than chunk_size is the list
\* of that text alone, with no overlap applied; of the empty text it is the
\* empty list.
ShortTextIsOneChunk ==
    (chunked.called /\ Len(chunked.text) <= chunked.chunker.chunk_size)
        => chunked.out = IF chunked.text = "" THEN <<>> ELSE <<chunked.text>>

\* a text of exactly chunk_size characters was split with a chunker that overlaps
FullSizeTextSplit ==
    /\ chunked.called
    /\ Len(chunked.text) = chunked.chunker.chunk_size
    /\ chunked.chunker.chunk_overlap > 0
    /\ chunked.out = <<chunked.text>>

\* two ingestions of the same input on the same path
Repeated(i, j) ==
    /\ i < j
    /\ ingestions[i].path = ingestions[j].path
    /\ ingestions[i].input = ingestions[j].input

\* C19: ingesting identical content twice yields the same sequence of chunk
\* ids, on the catalog path and on the upload path, and the second ingestion
\* adds no entry to the store.
IngestionIdempotent ==
    \A i, j \in 1..Len(ingestions) :
        Repeated(i, j) =>
            /\ ingestions[j].ids = ingestions[i].ids
            /\ ingestions[j].added = {}

\* On the catalog path alone the ids are stable.
CatalogIdempotent ==
    \A i, j \in 1..Len(ingestions) :
        (Repeated(i, j) /\ ingestions[i].path = "catalog") =>
            /\ ingestions[j].ids = ingestions[i].ids
            /\ ingestions[j].added = {}

(***************************************************************************)
(* Further claims about ranking and context assembly                       *)
(***************************************************************************)
\* C21: every relevance score attached to a retrieval result lies in [0, 1],
\* whatever the distance and whatever bonuses and penalties the ranking adds.
ScoresWithinUnit ==
    ranked.called =>
        \A i \in 1..Len(ranked.scored) :
            /\ AtMost(<<0, 1>>, ranked.scored[i].score)
            /\ AtMost(ranked.scored[i].score, <<1, 1>>)

\* the hit's node_type is a generic fallback block
GenericFallback(hit) ==
    \/ Contains("httprequest", lower[hit.metadata.node_type])
    \/ Contains("emailsend", lower[hit.metadata.node_type])

\* C22: whenever a service was detected in the query, a hit whose node_type is
\* a generic fallback block (httpRequest or emailSend) and matches none of the
\* detected services has a strictly negative service bonus.
GenericFallbackPenalised ==
    (ranked.called /\ ranked.service_mentions # <<>>) =>
        \A i \in 1..Len(ranked.scored) :
            (GenericFallback(ranked.scored[i]) /\ ~MatchesService(ranked.scored[i]))
                => ranked.scored[i].service_bonus < 0

\* C23: the four base validation rules are in every assembled context, the
\* httpMethod and path rule is there whenever n8n-nodes-base.webhook is required
\* and the jsCode rule whenever n8n-nodes-base.code is required.
BlockRulesPresent ==
    (rtCall.op = "retrieve_for_generation" /\ ~context.raised) =>
        LET rules == Range(context.value.validation_rules)
            required == Range(context.value.required_nodes)
        IN  /\ {"Workflow must have at least one trigger node",
                "All node connections must be valid",
                "Node IDs must be unique",
                "Position arrays must have [x, y] coordinates"} \subseteq rules
            /\ "n8n-nodes-base.webhook" \in required
                  => "Webhook must have httpMethod and path parameters" \in rules
            /\ "n8n-nodes-base.code" \in required
                  => "Code node must have valid JavaScript in jsCode parameter" \in rules

(***************************************************************************)
(* Further claims about FeedbackLoop (under Spec) and uploads (under       *)
(* SpecIngest)                                                             *)
(***************************************************************************)
\* C25: record_generation always completes for a context with at least one
\* required node or pattern: the update connections obtain the write lock and
\* no call ends in a database-locked error.
RecordNeverLocked ==
    \A t \in Threads :
        ~(/\ ret[t].kind = "raised"
          /\ ret[t].op = "record_generation"
          /\ ret[t].error = "database is locked")

\* C26: every chunk counted in chunks_created of a successful process_document
\* has been added to a vector collection.
CountedChunksIndexed ==
    \A i \in 1..Len(ingestions) :
        (ingestions[i].path = "upload" /\ ingestions[i].status = "success") =>
            \A j \in 1..Len(ingestions[i].ids) :
                ingestions[i].ids[j] \in StoredIds(index)

(***************************************************************************)
(* Claims about the backend (under SpecUpload, SpecSocket and SpecBuild)   *)
(***************************************************************************)
Finished(ws) == handlers[ws].pc # "stream" /\ streams[ws] # <<>>

ProgressValues == <<1, 3, 6, 9>>

\* C27: every stream of generate_workflow_stream carries at most one terminal
\* event (complete or error) and nothing after it, its progress values are the
\* increasing 0.1, 0.3, 0.6, 0.9 in this order, and a stream that is over ends
\* with its terminal event, also when the analyzer, the retriever or the
\* generator raised
StreamWellFormed ==
    \A ws \in Sockets :
        LET s == streams[ws]
        IN  /\ \A i \in 1..Len(s) :
                  /\ s[i].type \in Terminal => i = Len(s)
                  /\ s[i].type = "progress" =>
                         /\ i <= Len(ProgressValues)
                         /\ s[i].progress = ProgressValues[i]
                  /\ s[i].type \in Terminal \cup {"progress"}
            /\ Finished(ws) => s[Len(s)].type \in Terminal

\* a stream that ended with the error event after the retriever raised, and one
\* that ran to complete
StreamsEndedBothWays ==
    /\ Finished("ws1") /\ streams["ws1"] = <<Progress(1), Progress(3), Error>>
    /\ Finished("ws2")
    /\ streams["ws2"] = <<Progress(1), Progress(3), Progress(6), Progress(9), Complete>>

\* the socket that connected last under its client id
Latest(ws) ==
    \E i \in 1..Len(connect_order) :
        /\ connect_order[i] = ws
        /\ \A j \in (i + 1)..Len(connect_order) :
               handlers[connect_order[j]].client_id # handlers[ws].client_id

\* C28: a socket that connected under a client id while an earlier socket of
\* this id was registered keeps its registration whatever happens to the
\* earlier socket: while it is open and its handler runs, the manager has it
\* registered under its client id
SecondSocketStaysRegistered ==
    \A ws \in Sockets :
        (handlers[ws].pc \in {"receive", "stream"} /\ open[ws] /\ Latest(ws)) =>
            /\ handlers[ws].client_id \in DOMAIN active_connections
            /\ active_connections[handlers[ws].client_id] = ws

\* C29: the file_id of every upload response is the key under which
\* process_document stored the document's metadata
UploadIdIsMetadataKey ==
    \A i \in 1..Len(responses) :
        (responses[i].op = "upload" /\ responses[i].code = 200) =>
            responses[i].file_id = responses[i].stored_as

NodeNames(workflow) == {workflow.nodes[i].name : i \in 1..Len(workflow.nodes)}

\* C30: in every workflow of the template-based generator each connection's
\* source key and its target are names of nodes of the workflow
ConnectionsNameNodes ==
    built.called =>
        \A source \in DOMAIN built.workflow.connections :
            /\ source \in NodeNames(built.workflow)
            /\ built.workflow.connections[source] \in NodeNames(built.workflow)

====
